---------------------------- MODULE Spec2Model ----------------------------
(***************************************************************************)
(* Model of the result-materialisation layer of the Weaviate Python        *)
(* client: weaviate/collections/queries/base_executor.py (_BaseExecutor),  *)
(* and of weaviate/collections/cluster.py (_Cluster.nodes).                *)
(*                                                                         *)
(* The executor is stateless apart from the fields set by __init__ (the    *)
(* capability flags derived from the server version and the declared data  *)
(* models).  Every method is a pure function of its arguments and those    *)
(* fields, so each action of the model is one call of one method: it draws *)
(* the arguments from a bounded set, records them in `arg`, and records    *)
(* what the call returned (or the exception it raised) in `ret` and the    *)
(* warnings it emitted in `warned`; Return hands the outcome to the caller *)
(* and makes the executor idle.                                            *)
(*                                                                         *)
(* Spec is the reply side: the decoders and assemblers, called on an       *)
(* executor without a declared data model (they do not read it).           *)
(* RequestSpec is the request side: the selection resolvers, called on     *)
(* executors with and without declared data models, and the cluster        *)
(* status call.                                                            *)
(*                                                                         *)
(* Conventions.  Python values are records tagged by a "type" field.       *)
(* A call's outcome is Ok(v) or Raise(e).  Floats are modelled by small    *)
(* integers.  64-bit epoch integers do not fit TLC's 32-bit integers, so   *)
(* an epoch value is kept as a sign and its decimal digit sequence.        *)
(***************************************************************************)
EXTENDS Integers, Sequences, FiniteSets, TLC

\* The field names of the messages and values of the model.  Every record
\* below lists its fields in this (alphabetical) order.
RecordFields ==
    [add_props |-> TRUE, belongs_to_group |-> TRUE, blob_value |-> TRUE,
     bool_value |-> TRUE, bool_values |-> TRUE, bytes |-> TRUE,
     certainty |-> TRUE, certainty_present |-> TRUE, collection |-> TRUE,
     country_code |-> TRUE, creation_time |-> TRUE,
     creation_time_unix |-> TRUE, creation_time_unix_present |-> TRUE,
     date_value |-> TRUE, date_values |-> TRUE, debug |-> TRUE,
     default_country |-> TRUE, digits |-> TRUE, distance |-> TRUE,
     distance_present |-> TRUE, divisor |-> TRUE, epoch |-> TRUE,
     exc |-> TRUE, explain_score |-> TRUE, explain_score_present |-> TRUE,
     fields |-> TRUE, full_prompt |-> TRUE, generated |-> TRUE,
     generative |-> TRUE, generative_grouped_result |-> TRUE,
     generative_grouped_results |-> TRUE, generative_present |-> TRUE,
     geo_value |-> TRUE, group_by_results |-> TRUE, groups |-> TRUE,
     id_as_bytes |-> TRUE, include_metadata |-> TRUE,
     include_properties |-> TRUE, include_references |-> TRUE,
     include_vector |-> TRUE, input |-> TRUE, instant |-> TRUE, int |-> TRUE,
     int_value |-> TRUE, int_values |-> TRUE,
     international_formatted |-> TRUE, is_consistent |-> TRUE,
     is_consistent_present |-> TRUE, is_group_by |-> TRUE, key |-> TRUE,
     last_update_time |-> TRUE, last_update_time_unix |-> TRUE,
     last_update_time_unix_present |-> TRUE, latitude |-> TRUE,
     link_on |-> TRUE, list_value |-> TRUE, longitude |-> TRUE,
     max_distance |-> TRUE, message |-> TRUE, metadata |-> TRUE,
     min_distance |-> TRUE, name |-> TRUE, national |-> TRUE,
     national_formatted |-> TRUE, neg |-> TRUE, non_ref_props |-> TRUE,
     null_value |-> TRUE, number |-> TRUE, number_of_objects |-> TRUE,
     number_value |-> TRUE, number_values |-> TRUE, object_value |-> TRUE,
     object_values |-> TRUE, objects |-> TRUE, ok |-> TRUE, options |-> TRUE,
     output |-> TRUE, path |-> TRUE, phone_value |-> TRUE,
     populated |-> TRUE, prop_name |-> TRUE, properties |-> TRUE,
     provider |-> TRUE, ref_props |-> TRUE, ref_props_requested |-> TRUE,
     references |-> TRUE, rerank |-> TRUE, rerank_score |-> TRUE,
     rerank_score_present |-> TRUE, res |-> TRUE, response |-> TRUE,
     result |-> TRUE, results |-> TRUE, return_properties |-> TRUE,
     return_references |-> TRUE, returned |-> TRUE, score |-> TRUE,
     score_present |-> TRUE, shards |-> TRUE, status |-> TRUE,
     string_value |-> TRUE, target_collection |-> TRUE, text |-> TRUE,
     text_value |-> TRUE, text_values |-> TRUE, timestamp |-> TRUE,
     type |-> TRUE, uuid |-> TRUE, uuid_value |-> TRUE, uuid_values |-> TRUE,
     val |-> TRUE, valid |-> TRUE, value |-> TRUE, values |-> TRUE,
     vector |-> TRUE, vector_bytes |-> TRUE, vectors |-> TRUE, w |-> TRUE]

VARIABLES
    weaviate_version,   \* connection._weaviate_version, a <<major, minor, patch>> triple
    uses_125_api,       \* self.__uses_125_api
    uses_127_api,       \* self.__uses_127_api
    self_properties,    \* self._properties, the declared properties data model
    self_references,    \* self._references, the declared references data model
    op,                 \* the method whose call is being returned ("idle" between calls)
    arg,                \* its arguments
    ret,                \* its outcome: Ok(value) or Raise(exception)
    warned              \* the warnings it emitted, in order

vars == <<weaviate_version, uses_125_api, uses_127_api, self_properties,
          self_references, op, arg, ret, warned>>

-----------------------------------------------------------------------------
(* Python values and call outcomes *)

None == [type |-> "NoneType"]

\* A call's outcome: the value returned or the exception raised, with the
\* warnings emitted on the way (warnings.warn is a side effect, not a failure).
OkW(v, ws) == [exc |-> "", ok |-> TRUE, val |-> v, w |-> ws]

Ok(v) == OkW(v, <<>>)

RaiseW(e, ws) == [exc |-> e, ok |-> FALSE, val |-> None, w |-> ws]

Raise(e) == RaiseW(e, <<>>)

\* The outcomes evaluated before the first one that raised, that one included.
RECURSIVE Evaluated(_)
Evaluated(outs) ==
    IF Len(outs) = 0 THEN <<>>
    ELSE IF ~Head(outs).ok THEN <<Head(outs)>>
    ELSE <<Head(outs)>> \o Evaluated(Tail(outs))

RECURSIVE Warnings(_)
Warnings(outs) ==
    IF Len(outs) = 0 THEN <<>> ELSE Head(outs).w \o Warnings(Tail(outs))

\* The outcome of the elements evaluated: the exception of the last one when
\* it raised, otherwise the list of their values.
Collected(done) ==
    IF Len(done) > 0 /\ ~done[Len(done)].ok
    THEN RaiseW(done[Len(done)].exc, Warnings(done))
    ELSE OkW([i \in 1..Len(done) |-> done[i].val], Warnings(done))

\* A comprehension [f(x) for x in xs] over outcomes: the first element that
\* raises aborts the comprehension with its exception; the warnings are those
\* of the elements evaluated.
SeqOutcome(outs) == Collected(Evaluated(outs))

\* The rest of a method after a sub-expression it evaluated: an exception
\* propagates; otherwise the method returns F(value), the warnings kept.
Then(out, F(_)) == IF out.ok THEN OkW(F(out.val), out.w) ELSE out

-----------------------------------------------------------------------------
(* Version gate: __init__, lines 86-87 *)

\* weaviate_version.is_at_least(major, minor, patch)
is_at_least(v, major, minor, patch) ==
    \/ v[1] > major
    \/ v[1] = major /\ v[2] > minor
    \/ v[1] = major /\ v[2] = minor /\ v[3] >= patch

ServerVersions == {<<1, 24, 7>>, <<1, 26, 3>>, <<1, 27, 0>>}

-----------------------------------------------------------------------------
(* Epoch integers and __retrieve_timestamp, lines 98-106 *)

Zeros(n) == [i \in 1..n |-> 0]

Nines(n) == [i \in 1..n |-> 9]

Int64MaxDigits == <<9, 2, 2, 3, 3, 7, 2, 0, 3, 6, 8, 5, 4, 7, 7, 5, 8, 0, 7>>

\* The magnitudes drawn: for each digit count the smallest and the largest
\* value of that many digits (capped to the int64 range of the wire field).
EpochMagnitudes ==
    {<<0>>}
    \cup {<<1>> \o Zeros(n - 1) : n \in 1..19}
    \cup {Nines(n) : n \in 1..18}
    \cup {Int64MaxDigits}
    \cup {<<1, 7>> \o Zeros(11), <<1, 7>> \o Zeros(17)}

EpochInts ==
    {[digits |-> d, neg |-> s] : s \in BOOLEAN, d \in EpochMagnitudes}
    \ {[digits |-> <<0>>, neg |-> TRUE]}

DigitChars == <<"0", "1", "2", "3", "4", "5", "6", "7", "8", "9">>

\* str(timestamp): the characters of the decimal form, sign included.
PyStr(t) ==
    (IF t.neg THEN <<"-">> ELSE <<>>)
    \o [i \in 1..Len(t.digits) |-> DigitChars[t.digits[i] + 1]]

\* Decimal digits of the divisor: 1000 has 4, 1e9 has 10.
DivisorDigits(divisor) == IF divisor = 1000 THEN 4 ELSE 10

\* datetime.datetime.fromtimestamp(timestamp / divisor, tz=utc).  The call
\* raises when the instant lies outside the years 1..9999; every magnitude
\* below 10^10 seconds lies inside on both sides of the epoch.
fromtimestamp(t, divisor) ==
    LET secondsDigits == Len(t.digits) - (DivisorDigits(divisor) - 1)
    IN  IF secondsDigits <= 10
        THEN Ok([divisor |-> divisor, epoch |-> t, type |-> "datetime"])
        ELSE Raise("OverflowError")

retrieve_timestamp(timestamp) ==
    IF Len(PyStr(timestamp)) <= 13
    THEN fromtimestamp(timestamp, 1000)
    ELSE fromtimestamp(timestamp, 1000000000)

-----------------------------------------------------------------------------
(* Metadata decoding, lines 108-145 *)

PyFloat(x) == [type |-> "float", val |-> x]

PyStrValue(x) == [type |-> "str", val |-> x]

PyBool(x) == [type |-> "bool", val |-> x]

PyInt(x) == [type |-> "int", val |-> x]

\* MetadataReturn() with no argument: every field absent.
EmptyMetadataReturn ==
    [certainty |-> None, creation_time |-> None, distance |-> None,
     explain_score |-> None, is_consistent |-> None, last_update_time |-> None,
     rerank_score |-> None, score |-> None, type |-> "MetadataReturn"]

\* A mutation of __extract_metadata_for_object: distance is read without
\* its presence flag.
extract_metadata_for_object_DistanceUnguarded(add_props) ==
    LET ct == IF add_props.creation_time_unix_present
              THEN retrieve_timestamp(add_props.creation_time_unix) ELSE Ok(None)
        lt == IF add_props.last_update_time_unix_present
              THEN retrieve_timestamp(add_props.last_update_time_unix) ELSE Ok(None)
    IN  IF ~ct.ok THEN ct
        ELSE IF ~lt.ok THEN lt
        ELSE Ok([certainty |-> IF add_props.certainty_present
                               THEN PyFloat(add_props.certainty) ELSE None,
                 creation_time |-> ct.val,
                 distance |-> PyFloat(add_props.distance),
                 explain_score |-> IF add_props.explain_score_present
                                   THEN PyStrValue(add_props.explain_score) ELSE None,
                 is_consistent |-> IF add_props.is_consistent_present
                                   THEN PyBool(add_props.is_consistent) ELSE None,
                 last_update_time |-> lt.val,
                 rerank_score |-> IF add_props.rerank_score_present
                                  THEN PyFloat(add_props.rerank_score) ELSE None,
                 score |-> IF add_props.score_present
                           THEN PyFloat(add_props.score) ELSE None,
                 type |-> "MetadataReturn"])

extract_metadata_for_object(add_props) ==
    LET ct == IF add_props.creation_time_unix_present
              THEN retrieve_timestamp(add_props.creation_time_unix) ELSE Ok(None)
        lt == IF add_props.last_update_time_unix_present
              THEN retrieve_timestamp(add_props.last_update_time_unix) ELSE Ok(None)
    IN  IF ~ct.ok THEN ct
        ELSE IF ~lt.ok THEN lt
        ELSE Ok([certainty |-> IF add_props.certainty_present
                               THEN PyFloat(add_props.certainty) ELSE None,
                 creation_time |-> ct.val,
                 distance |-> IF add_props.distance_present
                              THEN PyFloat(add_props.distance) ELSE None,
                 explain_score |-> IF add_props.explain_score_present
                                   THEN PyStrValue(add_props.explain_score) ELSE None,
                 is_consistent |-> IF add_props.is_consistent_present
                                   THEN PyBool(add_props.is_consistent) ELSE None,
                 last_update_time |-> lt.val,
                 rerank_score |-> IF add_props.rerank_score_present
                                  THEN PyFloat(add_props.rerank_score) ELSE None,
                 score |-> IF add_props.score_present
                           THEN PyFloat(add_props.score) ELSE None,
                 type |-> "MetadataReturn"])

\* GroupByMetadataReturn() with no argument.
EmptyGroupByMetadataReturn == [distance |-> None, type |-> "GroupByMetadataReturn"]

extract_metadata_for_group_by_object(add_props) ==
    Ok([distance |-> IF add_props.distance_present
                     THEN PyFloat(add_props.distance) ELSE None,
        type |-> "GroupByMetadataReturn"])

\* int.from_bytes(bytes, byteorder="big")
RECURSIVE int_from_bytes_big(_)
int_from_bytes_big(bytes) ==
    IF Len(bytes) = 0 THEN 0
    ELSE 256 * int_from_bytes_big(SubSeq(bytes, 1, Len(bytes) - 1)) + bytes[Len(bytes)]

extract_id_for_object(add_props) ==
    [int |-> int_from_bytes_big(add_props.id_as_bytes), type |-> "UUID"]

-----------------------------------------------------------------------------
(* Vector decoding, lines 147-170 *)

\* A packed buffer is a sequence of bytes; a decoded float32 is kept as the
\* four bytes it was unpacked from.
Float32(bytes) == [bytes |-> bytes, type |-> "float32"]

\* _ByteOps.decode_float32s / _Unpack.single: one float per 4 bytes.
decode_float32s(bytes) ==
    [i \in 1..(Len(bytes) \div 4) |-> Float32(SubSeq(bytes, 4 * i - 3, 4 * i))]

\* _Unpack.multi: a 2-byte little-endian dimension marker, then the floats
\* of the sub-vectors, one row per `dim` floats.
unpack_multi(bytes) ==
    IF Len(bytes) < 2 THEN <<>>
    ELSE LET dim    == bytes[1] + 256 * bytes[2]
             floats == decode_float32s(SubSeq(bytes, 3, Len(bytes)))
         IN  IF dim = 0 THEN <<>>
             ELSE [r \in 1..(Len(floats) \div dim) |->
                      SubSeq(floats, dim * (r - 1) + 1, dim * r)]

VECTOR_TYPE_UNSPECIFIED == "VECTOR_TYPE_UNSPECIFIED"
VECTOR_TYPE_SINGLE_FP32 == "VECTOR_TYPE_SINGLE_FP32"
VECTOR_TYPE_MULTI_FP32 == "VECTOR_TYPE_MULTI_FP32"

\* A Python dict, in insertion order: a sequence of [key, value] items with
\* pairwise distinct keys.  Assigning an existing key keeps its position.
DictKeys(d) == {d[i].key : i \in 1..Len(d)}

\* A mutation of DictSet: assigning an existing key keeps the old value.
DictSet_KeepFirst(d, k, v) ==
    IF k \in DictKeys(d) THEN d ELSE Append(d, [key |-> k, value |-> v])

DictSet(d, k, v) ==
    IF k \in DictKeys(d)
    THEN [i \in 1..Len(d) |-> IF d[i].key = k THEN [key |-> k, value |-> v] ELSE d[i]]
    ELSE Append(d, [key |-> k, value |-> v])

DictGet(d, k) == (CHOOSE i \in 1..Len(d) : d[i].key = k)

DictValue(d, k) == d[DictGet(d, k)].value

\* {key(x): value(x) for x in items}, items a sequence of [key, value].
RECURSIVE DictFromItems(_)
DictFromItems(items) ==
    IF Len(items) = 0 THEN <<>>
    ELSE LET last == items[Len(items)]
         IN  DictSet(DictFromItems(SubSeq(items, 1, Len(items) - 1)),
                     last.key, last.value)

\* A mutation of __extract_vector_for_object: an unrecognised tag is decoded
\* as a matrix.
extract_vector_for_object_UnknownAsMulti(add_props) ==
    IF /\ Len(add_props.vector_bytes) = 0
       /\ Len(add_props.vector) = 0
       /\ Len(add_props.vectors) = 0
    THEN <<>>
    ELSE IF Len(add_props.vector_bytes) > 0
    THEN <<[key |-> "default", value |-> decode_float32s(add_props.vector_bytes)]>>
    ELSE DictFromItems(
             [i \in 1..Len(add_props.vectors) |->
                 [key |-> add_props.vectors[i].name,
                  value |-> IF add_props.vectors[i].type = VECTOR_TYPE_SINGLE_FP32
                            THEN decode_float32s(add_props.vectors[i].vector_bytes)
                            ELSE unpack_multi(add_props.vectors[i].vector_bytes)]])

extract_vector_for_object(add_props) ==
    IF /\ Len(add_props.vector_bytes) = 0
       /\ Len(add_props.vector) = 0
       /\ Len(add_props.vectors) = 0
    THEN <<>>
    ELSE IF Len(add_props.vector_bytes) > 0
    THEN <<[key |-> "default", value |-> decode_float32s(add_props.vector_bytes)]>>
    ELSE DictFromItems(
             [i \in 1..Len(add_props.vectors) |->
                 LET vec == add_props.vectors[i]
                 IN  [key |-> vec.name,
                      value |-> IF vec.type = VECTOR_TYPE_SINGLE_FP32
                                THEN decode_float32s(vec.vector_bytes)
                                ELSE IF vec.type = VECTOR_TYPE_MULTI_FP32
                                THEN unpack_multi(vec.vector_bytes)
                                ELSE decode_float32s(vec.vector_bytes)]])

-----------------------------------------------------------------------------
(* Generative decoding, lines 172-242 *)

\* message.HasField(name) on a message whose set fields are `populated`.
HasField(message, name) == name \in message.populated

\* metadata.<provider>: the provider's sub-message.
ProviderMetadata(metadata, provider) ==
    [provider |-> provider, type |-> "GenerativeMetadata"]

extract_generated_from_metadata(add_props) ==
    IF add_props.generative_present THEN PyStrValue(add_props.generative) ELSE None

extract_generated_from_generative(generative) ==
    IF Len(generative.values) > 0 THEN PyStrValue(generative.values[1].result) ELSE None

extract_generated_from_reply(res) ==
    IF res.generative_grouped_result # ""
    THEN PyStrValue(res.generative_grouped_result)
    ELSE IF Len(res.generative_grouped_results.values) > 0
    THEN PyStrValue(res.generative_grouped_results.values[1].result)
    ELSE None

\* A mutation of __extract_generative_metadata: the cohere branch returns
\* the aws variant.
extract_generative_metadata_CohereReadsAws(metadata) ==
    IF HasField(metadata, "anthropic") THEN ProviderMetadata(metadata, "anthropic")
    ELSE IF HasField(metadata, "anyscale") THEN ProviderMetadata(metadata, "anyscale")
    ELSE IF HasField(metadata, "aws") THEN ProviderMetadata(metadata, "aws")
    ELSE IF HasField(metadata, "cohere") THEN ProviderMetadata(metadata, "aws")
    ELSE IF HasField(metadata, "databricks") THEN ProviderMetadata(metadata, "databricks")
    ELSE IF HasField(metadata, "dummy") THEN ProviderMetadata(metadata, "dummy")
    ELSE IF HasField(metadata, "friendliai") THEN ProviderMetadata(metadata, "friendliai")
    ELSE IF HasField(metadata, "google") THEN ProviderMetadata(metadata, "google")
    ELSE IF HasField(metadata, "mistral") THEN ProviderMetadata(metadata, "mistral")
    ELSE IF HasField(metadata, "nvidia") THEN ProviderMetadata(metadata, "nvidia")
    ELSE IF HasField(metadata, "ollama") THEN ProviderMetadata(metadata, "ollama")
    ELSE IF HasField(metadata, "openai") THEN ProviderMetadata(metadata, "openai")
    ELSE None

extract_generative_metadata(metadata) ==
    IF HasField(metadata, "anthropic") THEN ProviderMetadata(metadata, "anthropic")
    ELSE IF HasField(metadata, "anyscale") THEN ProviderMetadata(metadata, "anyscale")
    ELSE IF HasField(metadata, "aws") THEN ProviderMetadata(metadata, "aws")
    ELSE IF HasField(metadata, "cohere") THEN ProviderMetadata(metadata, "cohere")
    ELSE IF HasField(metadata, "databricks") THEN ProviderMetadata(metadata, "databricks")
    ELSE IF HasField(metadata, "dummy") THEN ProviderMetadata(metadata, "dummy")
    ELSE IF HasField(metadata, "friendliai") THEN ProviderMetadata(metadata, "friendliai")
    ELSE IF HasField(metadata, "google") THEN ProviderMetadata(metadata, "google")
    ELSE IF HasField(metadata, "mistral") THEN ProviderMetadata(metadata, "mistral")
    ELSE IF HasField(metadata, "nvidia") THEN ProviderMetadata(metadata, "nvidia")
    ELSE IF HasField(metadata, "ollama") THEN ProviderMetadata(metadata, "ollama")
    ELSE IF HasField(metadata, "openai") THEN ProviderMetadata(metadata, "openai")
    ELSE None

\* A mutation of __extract_generative_single_from_generative: the annotation
\* is built from the last entry of the payload.
extract_generative_single_from_generative_LastEntry(result) ==
    IF Len(result.values) > 0
    THEN [debug |-> IF result.values[Len(result.values)].debug.full_prompt # ""
                    THEN [full_prompt |->
                              result.values[Len(result.values)].debug.full_prompt,
                          type |-> "GenerativeDebug"]
                    ELSE None,
          metadata |-> extract_generative_metadata(
                           result.values[Len(result.values)].metadata),
          text |-> PyStrValue(result.values[Len(result.values)].result),
          type |-> "GenerativeSingle"]
    ELSE None

extract_generative_single_from_generative(result) ==
    IF Len(result.values) > 0
    THEN LET generative == result.values[1]
         IN  [debug |-> IF generative.debug.full_prompt # ""
                        THEN [full_prompt |-> generative.debug.full_prompt,
                              type |-> "GenerativeDebug"]
                        ELSE None,
              metadata |-> extract_generative_metadata(generative.metadata),
              text |-> PyStrValue(generative.result),
              type |-> "GenerativeSingle"]
    ELSE None

extract_generative_grouped_from_generative(result) ==
    IF Len(result.values) > 0
    THEN LET generative == result.values[1]
         IN  [metadata |-> extract_generative_metadata(generative.metadata),
              text |-> PyStrValue(generative.result),
              type |-> "GenerativeGrouped"]
    ELSE None

-----------------------------------------------------------------------------
(* Property value decoding, lines 244-321 *)

\* A wire message with a oneof is a record holding `populated`, the set of
\* the oneof's fields that are set (at most one), and that field itself.

Grpc002 == "Grpc002: unknown return type received, skipping value and returning None"

Con004 == "Con004: received a date with year 0, the year will be set to datetime.min"

\* A mutation of unknown_type_encountered: the diagnostic is not emitted.
unknown_type_encountered_Silent == <<>>

\* _Warnings.unknown_type_encountered (warnings.py): warns, returns nothing.
unknown_type_encountered == <<Grpc002>>

\* _Warnings.datetime_year_zero (warnings.py): warns, returns nothing.
datetime_year_zero == <<Con004>>

\* The strings uuid.UUID accepts among those drawn, with the 128-bit integer
\* each denotes: the canonical form, the URN form and the braced form.
UuidInts ==
    [s \in {"00000000-0000-0000-0000-0000000000a1",
            "urn:uuid:00000000-0000-0000-0000-0000000000a1",
            "{00000000-0000-0000-0000-0000000000b2}"} |->
        IF s = "{00000000-0000-0000-0000-0000000000b2}" THEN 178 ELSE 161]

\* A mutation of uuid_UUID: a badly formed string yields None instead of
\* raising.
uuid_UUID_Lenient(hex) ==
    IF hex \in DOMAIN UuidInts
    THEN Ok([int |-> UuidInts[hex], type |-> "UUID"])
    ELSE Ok(None)

\* uuid_lib.UUID(hex): raises ValueError on a badly formed string.
uuid_UUID(hex) ==
    IF hex \in DOMAIN UuidInts
    THEN Ok([int |-> UuidInts[hex], type |-> "UUID"])
    ELSE Raise("ValueError")

\* The date strings drawn that the strict parse accepts, with the instant
\* each denotes (a trailing Z and a +00:00 offset denote the same instant).
DateInstants ==
    [s \in {"2023-11-14T22:13:20Z", "2023-11-14T22:13:20+00:00"} |->
        "2023-11-14 22:13:20 UTC"]

YearZeroDates == {"0000-01-30T00:00:00Z"}

\* _datetime_from_weaviate_str: strict parse; a year-zero date is clamped to
\* datetime.min with a warning; any other unparsable string raises.
datetime_from_weaviate_str(string) ==
    IF string \in DOMAIN DateInstants
    THEN Ok([instant |-> DateInstants[string], type |-> "datetime"])
    ELSE IF string \in YearZeroDates
    THEN OkW([instant |-> "datetime.min", type |-> "datetime"], datetime_year_zero)
    ELSE Raise("ValueError")

\* _ByteOps.decode_int64s / decode_float64s: one number per 8 bytes, kept as
\* the bytes it was unpacked from.
decode_int64s(bytes) ==
    [i \in 1..(Len(bytes) \div 8) |->
        [bytes |-> SubSeq(bytes, 8 * i - 7, 8 * i), type |-> "int"]]

decode_float64s(bytes) ==
    [i \in 1..(Len(bytes) \div 8) |->
        [bytes |-> SubSeq(bytes, 8 * i - 7, 8 * i), type |-> "float"]]

PyList(xs, f(_)) == [i \in 1..Len(xs) |-> f(xs[i])]

RECURSIVE deserialize_list_value_prop_125(_)
RECURSIVE deserialize_list_value_prop_123(_)
RECURSIVE deserialize_non_ref_prop(_)
RECURSIVE parse_nonref_properties_result(_)

deserialize_list_value_prop_125(value) ==
    IF HasField(value, "bool_values")
    THEN Ok(PyList(value.bool_values.values, PyBool))
    ELSE IF HasField(value, "date_values")
    THEN SeqOutcome(PyList(value.date_values.values, datetime_from_weaviate_str))
    ELSE IF HasField(value, "int_values")
    THEN Ok(decode_int64s(value.int_values.values))
    ELSE IF HasField(value, "number_values")
    THEN Ok(decode_float64s(value.number_values.values))
    ELSE IF HasField(value, "text_values")
    THEN Ok(PyList(value.text_values.values, PyStrValue))
    ELSE IF HasField(value, "uuid_values")
    THEN SeqOutcome(PyList(value.uuid_values.values, uuid_UUID))
    ELSE IF HasField(value, "object_values")
    THEN SeqOutcome(PyList(value.object_values.values, parse_nonref_properties_result))
    ELSE OkW(None, unknown_type_encountered)

deserialize_list_value_prop_123(value) ==
    SeqOutcome(PyList(value.values, deserialize_non_ref_prop))

deserialize_non_ref_prop(value) ==
    IF HasField(value, "uuid_value") THEN uuid_UUID(value.uuid_value)
    ELSE IF HasField(value, "date_value") THEN datetime_from_weaviate_str(value.date_value)
    ELSE IF HasField(value, "string_value") THEN Ok(PyStrValue(value.string_value))
    ELSE IF HasField(value, "text_value") THEN Ok(PyStrValue(value.text_value))
    ELSE IF HasField(value, "int_value") THEN Ok(PyInt(value.int_value))
    ELSE IF HasField(value, "number_value") THEN Ok(PyFloat(value.number_value))
    ELSE IF HasField(value, "bool_value") THEN Ok(PyBool(value.bool_value))
    ELSE IF HasField(value, "list_value")
    THEN IF is_at_least(weaviate_version, 1, 25, 0)
         THEN deserialize_list_value_prop_125(value.list_value)
         ELSE deserialize_list_value_prop_123(value.list_value)
    ELSE IF HasField(value, "object_value")
    THEN parse_nonref_properties_result(value.object_value)
    ELSE IF HasField(value, "geo_value")
    THEN Ok([latitude |-> value.geo_value.latitude,
             longitude |-> value.geo_value.longitude,
             type |-> "GeoCoordinate"])
    ELSE IF HasField(value, "blob_value")
    THEN Ok([type |-> "blob", val |-> value.blob_value])
    ELSE IF HasField(value, "phone_value")
    THEN Ok([country_code |-> value.phone_value.country_code,
             default_country |-> value.phone_value.default_country,
             international_formatted |-> value.phone_value.international_formatted,
             national |-> value.phone_value.national,
             national_formatted |-> value.phone_value.national_formatted,
             number |-> value.phone_value.input,
             type |-> "_PhoneNumber",
             valid |-> value.phone_value.valid])
    ELSE IF HasField(value, "null_value") THEN Ok(None)
    ELSE OkW(None, unknown_type_encountered)

\* {name: deserialize(value) for name, value in properties.fields.items()};
\* `fields` lists the map's entries in iteration order.
parse_nonref_properties_result(properties) ==
    Then(SeqOutcome([i \in 1..Len(properties.fields) |->
                        deserialize_non_ref_prop(properties.fields[i].value)]),
         LAMBDA values :
             DictFromItems([i \in 1..Len(properties.fields) |->
                               [key |-> properties.fields[i].key, value |-> values[i]]]))

-----------------------------------------------------------------------------
(* Object assembly, lines 323-461 *)

\* _QueryOptions(True, True, True, True, False): the four include_* fields
\* and, last, is_group_by.
QueryOptions(m, p, r, v, g) ==
    [include_metadata |-> m, include_properties |-> p, include_references |-> r,
     include_vector |-> v, is_group_by |-> g]

\* The three parts of an object that can raise or warn, evaluated in the
\* order of the constructor's keyword arguments.
ObjectParts(properties, metadata, references) ==
    SeqOutcome(<<properties, metadata, references>>)

RECURSIVE parse_ref_properties_result(_)
RECURSIVE result_to_query_object(_, _, _)

\* A mutation of the options handed to referenced objects: vectors left out.
ReferenceOptions_WithoutVectors == QueryOptions(TRUE, TRUE, TRUE, FALSE, FALSE)

\* The options every referenced object is decoded with (line 336).
ReferenceOptions == QueryOptions(TRUE, TRUE, TRUE, TRUE, FALSE)

\* A mutation of __parse_ref_properties_result: no reference entries give
\* the empty mapping whether or not the reply flags them as requested.
parse_ref_properties_result_AlwaysMapping(properties) ==
    IF Len(properties.ref_props) = 0
    THEN Ok(<<>>)
    ELSE Then(SeqOutcome([i \in 1..Len(properties.ref_props) |->
                  SeqOutcome([j \in 1..Len(properties.ref_props[i].properties) |->
                      result_to_query_object(
                          properties.ref_props[i].properties[j],
                          properties.ref_props[i].properties[j].metadata,
                          ReferenceOptions)])]),
              LAMBDA lists :
                  DictFromItems([i \in 1..Len(properties.ref_props) |->
                                    [key |-> properties.ref_props[i].prop_name,
                                     value |-> [objects |-> lists[i],
                                                type |-> "_CrossReference"]]]))


parse_ref_properties_result(properties) ==
    IF Len(properties.ref_props) = 0
    THEN Ok(IF properties.ref_props_requested THEN <<>> ELSE None)
    ELSE Then(SeqOutcome([i \in 1..Len(properties.ref_props) |->
                  SeqOutcome([j \in 1..Len(properties.ref_props[i].properties) |->
                      result_to_query_object(
                          properties.ref_props[i].properties[j],
                          properties.ref_props[i].properties[j].metadata,
                          ReferenceOptions)])]),
              LAMBDA lists :
                  DictFromItems([i \in 1..Len(properties.ref_props) |->
                                    [key |-> properties.ref_props[i].prop_name,
                                     value |-> [objects |-> lists[i],
                                                type |-> "_CrossReference"]]]))

result_to_query_object(props, meta, options) ==
    Then(ObjectParts(
             IF options.include_properties
             THEN parse_nonref_properties_result(props.non_ref_props) ELSE Ok(<<>>),
             IF options.include_metadata
             THEN extract_metadata_for_object(meta) ELSE Ok(EmptyMetadataReturn),
             IF options.include_references
             THEN parse_ref_properties_result(props) ELSE Ok(None)),
         LAMBDA parts :
             [collection |-> props.target_collection,
              metadata |-> parts[2],
              properties |-> parts[1],
              references |-> parts[3],
              type |-> "Object",
              uuid |-> extract_id_for_object(meta),
              vector |-> IF options.include_vector
                         THEN extract_vector_for_object(meta) ELSE <<>>])

\* A mutation of __result_to_generative_object: an empty payload on a 1.27
\* server falls back to the metadata side channel.
result_to_generative_object_SideChannelFallback(props, meta, gen, options) ==
    Then(ObjectParts(
             IF options.include_properties
             THEN parse_nonref_properties_result(props.non_ref_props) ELSE Ok(<<>>),
             IF options.include_metadata
             THEN extract_metadata_for_object(meta) ELSE Ok(EmptyMetadataReturn),
             IF options.include_references
             THEN parse_ref_properties_result(props) ELSE Ok(None)),
         LAMBDA parts :
             [collection |-> props.target_collection,
              generated |-> IF uses_127_api /\ Len(gen.values) > 0
                            THEN extract_generated_from_generative(gen)
                            ELSE extract_generated_from_metadata(meta),
              generative |-> extract_generative_single_from_generative(gen),
              metadata |-> parts[2],
              properties |-> parts[1],
              references |-> parts[3],
              type |-> "GenerativeObject",
              uuid |-> extract_id_for_object(meta),
              vector |-> IF options.include_vector
                         THEN extract_vector_for_object(meta) ELSE <<>>])

result_to_generative_object(props, meta, gen, options) ==
    Then(ObjectParts(
             IF options.include_properties
             THEN parse_nonref_properties_result(props.non_ref_props) ELSE Ok(<<>>),
             IF options.include_metadata
             THEN extract_metadata_for_object(meta) ELSE Ok(EmptyMetadataReturn),
             IF options.include_references
             THEN parse_ref_properties_result(props) ELSE Ok(None)),
         LAMBDA parts :
             [collection |-> props.target_collection,
              generated |-> IF uses_127_api
                            THEN extract_generated_from_generative(gen)
                            ELSE extract_generated_from_metadata(meta),
              generative |-> extract_generative_single_from_generative(gen),
              metadata |-> parts[2],
              properties |-> parts[1],
              references |-> parts[3],
              type |-> "GenerativeObject",
              uuid |-> extract_id_for_object(meta),
              vector |-> IF options.include_vector
                         THEN extract_vector_for_object(meta) ELSE <<>>])

result_to_group_by_object(props, meta, options, group_name) ==
    Then(ObjectParts(
             IF options.include_properties
             THEN parse_nonref_properties_result(props.non_ref_props) ELSE Ok(<<>>),
             IF options.include_metadata
             THEN extract_metadata_for_group_by_object(meta)
             ELSE Ok(EmptyGroupByMetadataReturn),
             IF options.include_references
             THEN parse_ref_properties_result(props) ELSE Ok(None)),
         LAMBDA parts :
             [belongs_to_group |-> group_name,
              collection |-> props.target_collection,
              metadata |-> parts[2],
              properties |-> parts[1],
              references |-> parts[3],
              type |-> "GroupByObject",
              uuid |-> extract_id_for_object(meta),
              vector |-> IF options.include_vector
                         THEN extract_vector_for_object(meta) ELSE <<>>])

\* `message.field is not None` for a message-typed field of a protobuf
\* message: reading such a field yields the set sub-message or a default
\* instance, never None.
is_not_None(submessage) == TRUE

result_to_group(res, options) ==
    Then(SeqOutcome([i \in 1..Len(res.objects) |->
             result_to_group_by_object(res.objects[i].properties,
                                       res.objects[i].metadata, options, res.name)]),
         LAMBDA objects :
             [max_distance |-> res.max_distance,
              min_distance |-> res.min_distance,
              name |-> res.name,
              number_of_objects |-> res.number_of_objects,
              objects |-> objects,
              rerank_score |-> IF is_not_None(res.rerank)
                               THEN PyFloat(res.rerank.score) ELSE None,
              type |-> "Group"])

result_to_generative_group(res, options) ==
    Then(SeqOutcome([i \in 1..Len(res.objects) |->
             result_to_group_by_object(res.objects[i].properties,
                                       res.objects[i].metadata, options, res.name)]),
         LAMBDA objects :
             [generated |-> IF is_not_None(res.generative)
                            THEN PyStrValue(res.generative.result) ELSE None,
              max_distance |-> res.max_distance,
              min_distance |-> res.min_distance,
              name |-> res.name,
              number_of_objects |-> res.number_of_objects,
              objects |-> objects,
              rerank_score |-> IF is_not_None(res.rerank)
                               THEN PyFloat(res.rerank.score) ELSE None,
              type |-> "GenerativeGroup"])

-----------------------------------------------------------------------------
(* Reply assembly, lines 463-562 *)

\* A mutation of _result_to_query_return: the results are walked last to
\* first.
result_to_query_return_Reversed(res, options) ==
    Then(SeqOutcome([i \in 1..Len(res.results) |->
             result_to_query_object(
                 res.results[Len(res.results) + 1 - i].properties,
                 res.results[Len(res.results) + 1 - i].metadata, options)]),
         LAMBDA objects : [objects |-> objects, type |-> "QueryReturn"])

result_to_query_return(res, options) ==
    Then(SeqOutcome([i \in 1..Len(res.results) |->
             result_to_query_object(res.results[i].properties,
                                    res.results[i].metadata, options)]),
         LAMBDA objects : [objects |-> objects, type |-> "QueryReturn"])

result_to_generative_query_return(res, options) ==
    Then(SeqOutcome([i \in 1..Len(res.results) |->
             result_to_generative_object(res.results[i].properties,
                                         res.results[i].metadata,
                                         res.results[i].generative, options)]),
         LAMBDA objects :
             [generated |-> extract_generated_from_reply(res),
              generative |-> extract_generative_grouped_from_generative(
                                 res.generative_grouped_results),
              objects |-> objects,
              type |-> "GenerativeReturn"])

\* A mutation of FlattenGroups: the groups are walked last to first.
RECURSIVE FlattenGroups_LastGroupFirst(_)
FlattenGroups_LastGroupFirst(groups) ==
    IF Len(groups) = 0 THEN <<>>
    ELSE groups[Len(groups)].value.objects
         \o FlattenGroups_LastGroupFirst(SubSeq(groups, 1, Len(groups) - 1))

\* [obj for group in groups.values() for obj in group.objects]
RECURSIVE FlattenGroups(_)
FlattenGroups(groups) ==
    IF Len(groups) = 0 THEN <<>>
    ELSE Head(groups).value.objects \o FlattenGroups(Tail(groups))

result_to_groupby_return(res, options) ==
    Then(SeqOutcome([i \in 1..Len(res.group_by_results) |->
             result_to_group(res.group_by_results[i], options)]),
         LAMBDA built :
             LET groups == DictFromItems([i \in 1..Len(res.group_by_results) |->
                               [key |-> res.group_by_results[i].name,
                                value |-> built[i]]])
             IN  [groups |-> groups,
                  objects |-> FlattenGroups(groups),
                  type |-> "GroupByReturn"])

\* The flattened objects of the generative shape are rebuilt one by one with
\* belongs_to_group taken from the group holding them.
RECURSIVE RebuildGroupObjects(_)
RebuildGroupObjects(groups) ==
    IF Len(groups) = 0 THEN <<>>
    ELSE LET group == Head(groups).value
         IN  [i \in 1..Len(group.objects) |->
                 LET obj == group.objects[i]
                 IN  [belongs_to_group |-> group.name,
                      collection |-> obj.collection,
                      metadata |-> obj.metadata,
                      properties |-> obj.properties,
                      references |-> obj.references,
                      type |-> "GroupByObject",
                      uuid |-> obj.uuid,
                      vector |-> obj.vector]]
             \o RebuildGroupObjects(Tail(groups))

result_to_generative_groupby_return(res, options) ==
    Then(SeqOutcome([i \in 1..Len(res.group_by_results) |->
             result_to_generative_group(res.group_by_results[i], options)]),
         LAMBDA built :
             LET groups == DictFromItems([i \in 1..Len(res.group_by_results) |->
                               [key |-> res.group_by_results[i].name,
                                value |-> built[i]]])
             IN  [generated |-> IF res.generative_grouped_result # ""
                                THEN PyStrValue(res.generative_grouped_result)
                                ELSE None,
                  groups |-> groups,
                  objects |-> RebuildGroupObjects(groups),
                  type |-> "GenerativeGroupByReturn"])

result_to_generative_return(res, options) ==
    IF options.is_group_by = FALSE
    THEN result_to_generative_query_return(res, options)
    ELSE result_to_generative_groupby_return(res, options)

\* A mutation of _result_to_query_or_groupby_return: the shape follows the
\* reply's content.
result_to_query_or_groupby_return_ByContent(res, options) ==
    IF Len(res.group_by_results) = 0
    THEN result_to_query_return(res, options)
    ELSE result_to_groupby_return(res, options)

result_to_query_or_groupby_return(res, options) ==
    IF ~options.is_group_by
    THEN result_to_query_return(res, options)
    ELSE result_to_groupby_return(res, options)

-----------------------------------------------------------------------------
(* Selection resolvers, lines 564-603 and 628-648 *)

\* Python values a caller can pass as a selection, tagged by type(value).
\* A TypedDict class carries its declared field names in declaration order.
ListOf(xs) == [type |-> "list", val |-> xs]

TypedDict(names) == [fields |-> names, type |-> "_TypedDictMeta"]

\* bool(value): None, False, 0 and the empty containers are false.
truth(value) ==
    IF value.type = "NoneType" THEN FALSE
    ELSE IF value.type = "bool" THEN value.val
    ELSE IF value.type = "int" THEN value.val # 0
    ELSE IF value.type = "str" THEN value.val # ""
    ELSE IF value.type \in {"list", "tuple", "dict"} THEN Len(value.val) > 0
    ELSE TRUE

is_typeddict(value) == value.type = "_TypedDictMeta"

\* The field names of a TypedDict class, in declaration order.
extract_properties_from_data_model(data_model) == ListOf(data_model.fields)

extract_references_from_data_model(data_model) == ListOf(data_model.fields)

\* f"{parameter} must only be a TypedDict or {alias} within this context but
\* is {type(value)}": the literal parts and the interpolated type.
WeaviateInvalidInputError(parameter, alias, value) ==
    [exc |-> "WeaviateInvalidInputError", ok |-> FALSE,
     val |-> [message |-> <<parameter, " must only be a TypedDict or ",
                            alias, " within this context but is ",
                            "<class '", value.type, "'>">>,
              type |-> "WeaviateInvalidInputError"],
     w |-> <<>>]

\* A resolver without the shortcut for false values.
parse_return_properties_NoShortcut(return_properties) ==
    IF \/ return_properties.type \in {"list", "tuple", "str"}
       \/ return_properties.type = "str"
       \/ return_properties.type = "QueryNested"
       \/ /\ return_properties = None \/ return_properties = PyBool(TRUE)
          /\ self_properties = None
    THEN Ok(return_properties)
    ELSE IF /\ return_properties = None \/ return_properties = PyBool(TRUE)
            /\ self_properties # None
    THEN IF ~is_typeddict(self_properties)
         THEN Ok(return_properties)
         ELSE Ok(extract_properties_from_data_model(self_properties))
    ELSE IF ~is_typeddict(return_properties)
    THEN WeaviateInvalidInputError("return_properties", "PROPERTIES",
                                   return_properties)
    ELSE Ok(extract_properties_from_data_model(return_properties))

\* A resolver that takes the declared data model even when the caller passes
\* one of their own.
parse_return_properties_DeclaredFirst(return_properties) ==
    IF return_properties.type # "NoneType" /\ ~truth(return_properties)
    THEN Ok(ListOf(<<>>))
    ELSE IF \/ return_properties.type \in {"list", "tuple", "str"}
            \/ return_properties.type = "str"
            \/ return_properties.type = "QueryNested"
            \/ /\ return_properties = None \/ return_properties = PyBool(TRUE)
               /\ self_properties = None
    THEN Ok(return_properties)
    ELSE IF is_typeddict(self_properties)
    THEN Ok(extract_properties_from_data_model(self_properties))
    ELSE IF return_properties = None \/ return_properties = PyBool(TRUE)
    THEN Ok(return_properties)
    ELSE IF ~is_typeddict(return_properties)
    THEN WeaviateInvalidInputError("return_properties", "PROPERTIES",
                                   return_properties)
    ELSE Ok(extract_properties_from_data_model(return_properties))

parse_return_properties(return_properties) ==
    IF return_properties.type # "NoneType" /\ ~truth(return_properties)
    THEN Ok(ListOf(<<>>))
    ELSE IF \/ return_properties.type \in {"list", "tuple", "str"}
            \/ return_properties.type = "str"
            \/ return_properties.type = "QueryNested"
            \/ /\ return_properties = None \/ return_properties = PyBool(TRUE)
               /\ self_properties = None
    THEN Ok(return_properties)
    ELSE IF /\ return_properties = None \/ return_properties = PyBool(TRUE)
            /\ self_properties # None
    THEN IF ~is_typeddict(self_properties)
         THEN Ok(return_properties)
         ELSE Ok(extract_properties_from_data_model(self_properties))
    ELSE IF ~is_typeddict(return_properties)
    THEN WeaviateInvalidInputError("return_properties", "PROPERTIES",
                                   return_properties)
    ELSE Ok(extract_properties_from_data_model(return_properties))

\* A resolver that passes an unset selection through whatever is declared.
parse_return_references_UnsetPassesThrough(return_references) ==
    IF \/ return_references = None
       \/ return_references.type \in {"list", "tuple", "str"}
       \/ return_references.type = "_QueryReference"
    THEN Ok(return_references)
    ELSE IF ~is_typeddict(return_references)
    THEN WeaviateInvalidInputError("return_references", "ReturnReferences",
                                   return_references)
    ELSE Ok(extract_references_from_data_model(return_references))

parse_return_references(return_references) ==
    IF \/ return_references = None /\ self_references = None
       \/ return_references.type \in {"list", "tuple", "str"}
       \/ return_references.type = "_QueryReference"
    THEN Ok(return_references)
    ELSE IF return_references = None /\ self_references # None
    THEN IF ~is_typeddict(self_references)
         THEN Ok(return_references)
         ELSE Ok(extract_references_from_data_model(self_references))
    ELSE IF ~is_typeddict(return_references)
    THEN WeaviateInvalidInputError("return_references", "ReturnReferences",
                                   return_references)
    ELSE Ok(extract_references_from_data_model(return_references))

-----------------------------------------------------------------------------
(* Cluster status: weaviate/collections/cluster.py, _Cluster.nodes, lines 42-85 *)

\* _capitalize_first_letter on a name kept as its sequence of characters:
\* the first character in upper case, the rest unchanged.
capitalize_first_letter(chars) ==
    IF Len(chars) = 0 THEN chars
    ELSE <<IF chars[1] = "a" THEN "A"
           ELSE IF chars[1] = "b" THEN "B"
           ELSE chars[1]>> \o Tail(chars)

\* A mutation of nodes: an empty node list is converted and returned.
nodes_EmptyListReturned(collection, output, response) ==
    [path |-> <<"/nodes">>
              \o (IF collection # None
                  THEN <<"/">> \o capitalize_first_letter(collection.val)
                  ELSE <<>>)
              \o (IF output # None THEN <<"?output=", output.val>> ELSE <<>>),
     returned |->
         IF "nodes" \notin DictKeys(response)
         THEN Raise("EmptyResponseError")
         ELSE IF DictValue(response, "nodes") = None
         THEN Raise("EmptyResponseError")
         ELSE Ok(ListOf([i \in 1..Len(DictValue(response, "nodes").val) |->
                     [name |-> DictValue(response, "nodes").val[i].name,
                      shards |-> IF output = PyStrValue("verbose")
                                 THEN DictValue(response, "nodes").val[i].shards
                                 ELSE None,
                      status |-> DictValue(response, "nodes").val[i].status,
                      type |-> "Node"]]))]

\* nodes(collection, output) when the connection answers the GET with the
\* decoded JSON object `response`: the request path, as the pieces it is
\* concatenated from, and the outcome.  The verbose conversion keeps the
\* shards of each node, the minimal one builds nodes without shards.
nodes(collection, output, response) ==
    [path |-> <<"/nodes">>
              \o (IF collection # None
                  THEN <<"/">> \o capitalize_first_letter(collection.val)
                  ELSE <<>>)
              \o (IF output # None THEN <<"?output=", output.val>> ELSE <<>>),
     returned |->
         IF "nodes" \notin DictKeys(response)
         THEN Raise("EmptyResponseError")
         ELSE IF DictValue(response, "nodes") = None
                 \/ DictValue(response, "nodes") = ListOf(<<>>)
         THEN Raise("EmptyResponseError")
         ELSE Ok(ListOf([i \in 1..Len(DictValue(response, "nodes").val) |->
                     [name |-> DictValue(response, "nodes").val[i].name,
                      shards |-> IF output = PyStrValue("verbose")
                                 THEN DictValue(response, "nodes").val[i].shards
                                 ELSE None,
                      status |-> DictValue(response, "nodes").val[i].status,
                      type |-> "Node"]]))]

-----------------------------------------------------------------------------
(* Inputs: wire messages drawn for the calls *)

MaxDepth == 1       \* nesting depth of object and list values inside a value
MaxRefDepth == 2    \* nesting depth of cross-references
MaxResults == 3     \* result entries of a reply
MaxGroups == 2      \* group-by buckets of a reply

Epoch(digits) == [digits |-> digits, neg |-> FALSE]

\* The wire values of the flag-guarded metadata fields.
DefaultValues ==
    [certainty |-> 0, creation_time_unix |-> Epoch(<<0>>), distance |-> 0,
     explain_score |-> "", is_consistent |-> FALSE,
     last_update_time_unix |-> Epoch(<<0>>), rerank_score |-> 0, score |-> 0]

NonDefaultValues ==
    [certainty |-> 7, creation_time_unix |-> Epoch(<<1, 7>> \o Zeros(11)),
     distance |-> 3, explain_score |-> "bm25", is_consistent |-> TRUE,
     last_update_time_unix |-> Epoch(<<1, 7>> \o Zeros(17)), rerank_score |-> 9,
     score |-> 5]

MixedValues ==
    [certainty |-> 0, creation_time_unix |-> Epoch(<<1, 7>> \o Zeros(17)),
     distance |-> 3, explain_score |-> "", is_consistent |-> TRUE,
     last_update_time_unix |-> Epoch(<<0>>), rerank_score |-> 9, score |-> 0]

MetadataValues == {DefaultValues, NonDefaultValues, MixedValues}

MetadataFlags ==
    {"distance", "certainty", "creation_time_unix", "last_update_time_unix",
     "score", "explain_score", "is_consistent", "rerank_score"}

\* A search_get_pb2.MetadataResult: `present` the flag-guarded fields whose
\* presence flag is set, `v` their wire values, the object id, the unnamed
\* packed vector, the named vectors and the generative side channel.
MetadataResult(present, v, id, vector_bytes, vectors, generative) ==
    [certainty |-> v.certainty,
     certainty_present |-> "certainty" \in present,
     creation_time_unix |-> v.creation_time_unix,
     creation_time_unix_present |-> "creation_time_unix" \in present,
     distance |-> v.distance,
     distance_present |-> "distance" \in present,
     explain_score |-> v.explain_score,
     explain_score_present |-> "explain_score" \in present,
     generative |-> generative,
     generative_present |-> "generative" \in present,
     id_as_bytes |-> id,
     is_consistent |-> v.is_consistent,
     is_consistent_present |-> "is_consistent" \in present,
     last_update_time_unix |-> v.last_update_time_unix,
     last_update_time_unix_present |-> "last_update_time_unix" \in present,
     rerank_score |-> v.rerank_score,
     rerank_score_present |-> "rerank_score" \in present,
     score |-> v.score,
     score_present |-> "score" \in present,
     vector |-> <<>>,
     vector_bytes |-> vector_bytes,
     vectors |-> vectors]

\* Packed float32 buffers: two floats, and a 2-row matrix of dimension 1.
TwoFloats == <<0, 0, 128, 63, 0, 0, 0, 64>>

MultiFloats == <<1, 0>> \o TwoFloats

NamedVectors ==
    <<[name |-> "title", type |-> VECTOR_TYPE_SINGLE_FP32, vector_bytes |-> TwoFloats],
      [name |-> "tokens", type |-> VECTOR_TYPE_MULTI_FP32, vector_bytes |-> MultiFloats],
      [name |-> "legacy", type |-> VECTOR_TYPE_UNSPECIFIED, vector_bytes |-> TwoFloats]>>

\* The metadata sections carried by the objects of the replies drawn.
MetaA == MetadataResult({"distance"}, NonDefaultValues, <<0, 1>>, TwoFloats, <<>>, "")

MetaB == MetadataResult(MetadataFlags, MixedValues, <<1, 0>>, <<>>, NamedVectors, "")

MetaC ==
    MetadataResult({"generative"}, NonDefaultValues, <<255, 255>>, <<>>, <<>>,
                   "side channel")

\* Every combination of presence flags and wire values (ExtractMetadata).
MetadataInputs ==
    {MetadataResult(present, v, <<0, 1>>, <<>>, <<>>, "") :
        present \in SUBSET MetadataFlags, v \in MetadataValues}

\* Metadata for __extract_vector_for_object: with and without the packed
\* buffer, the deprecated repeated-float field and named entries.  The named
\* entries are the entries of the server's name -> vector map, so their
\* names differ: one per tag, one untagged matrix buffer, one of no bytes.
VectorInputs ==
    {[MetadataResult({}, DefaultValues, <<0, 1>>, buffer, named, "")
         EXCEPT !.vector = floats] :
        buffer \in {<<>>, TwoFloats},
        floats \in {<<>>, <<1>>},
        named \in {<<>>, NamedVectors,
                   <<[name |-> "legacy", type |-> VECTOR_TYPE_UNSPECIFIED,
                      vector_bytes |-> MultiFloats]>>,
                   <<[name |-> "empty", type |-> VECTOR_TYPE_SINGLE_FP32,
                      vector_bytes |-> <<>>]>>}}

\* The provider variants of generative_pb2.GenerativeMetadata.
Providers ==
    {"anthropic", "anyscale", "aws", "cohere", "databricks", "dummy",
     "friendliai", "google", "mistral", "nvidia", "ollama", "openai"}

\* A GenerativeMetadata message with the variants of `populated` set.  A
\* well-formed reply sets at most one; two are drawn as well, so that the
\* order of the checks shows.
GenerativeMetadataInputs ==
    {[populated |-> ps] : ps \in {qs \in SUBSET Providers : Cardinality(qs) <= 2}}

GenerativeReply(result, full_prompt, providers) ==
    [debug |-> [full_prompt |-> full_prompt],
     metadata |-> [populated |-> providers],
     result |-> result]

NoGenerative == [values |-> <<>>]

OneGenerative == [values |-> <<GenerativeReply("generated text", "the prompt", {"cohere"})>>]

TwoGenerative ==
    [values |-> <<GenerativeReply("", "", {}),
                  GenerativeReply("second text", "", {"openai"})>>]

GenerativeResults == {NoGenerative, OneGenerative, TwoGenerative}

\* properties_pb2.Value messages, one constructor per field of the oneof.
UuidValue(x) == [populated |-> {"uuid_value"}, uuid_value |-> x]

DateValue(x) == [date_value |-> x, populated |-> {"date_value"}]

StringValue(x) == [populated |-> {"string_value"}, string_value |-> x]

TextValue(x) == [populated |-> {"text_value"}, text_value |-> x]

IntValue(x) == [int_value |-> x, populated |-> {"int_value"}]

NumberValue(x) == [number_value |-> x, populated |-> {"number_value"}]

BoolValue(x) == [bool_value |-> x, populated |-> {"bool_value"}]

ListValue(x) == [list_value |-> x, populated |-> {"list_value"}]

ObjectValue(x) == [object_value |-> x, populated |-> {"object_value"}]

GeoValue(lat, lon) ==
    [geo_value |-> [latitude |-> lat, longitude |-> lon], populated |-> {"geo_value"}]

BlobValue(x) == [blob_value |-> x, populated |-> {"blob_value"}]

PhoneValue(input) ==
    [phone_value |-> [country_code |-> 31, default_country |-> "nl",
                      input |-> input,
                      international_formatted |-> "+31 20 1234567", national |-> 201234567,
                      national_formatted |-> "020 1234567", valid |-> TRUE],
     populated |-> {"phone_value"}]

NullValue == [null_value |-> 0, populated |-> {"null_value"}]

\* No field of the oneof is set: an empty message, or a field added by a
\* newer server that this client's message type does not know.
UnsetValue == [populated |-> {}]

CanonicalUuid == "00000000-0000-0000-0000-0000000000a1"

MalformedUuid == "not-a-uuid"

GoodDate == "2023-11-14T22:13:20Z"

YearZeroDate == "0000-01-30T00:00:00Z"

MalformedDate == "14/11/2023"

ScalarValues ==
    {UuidValue(CanonicalUuid), UuidValue("urn:uuid:00000000-0000-0000-0000-0000000000a1"),
     UuidValue(MalformedUuid),
     DateValue(GoodDate), DateValue(YearZeroDate), DateValue(MalformedDate),
     StringValue("s"), TextValue("t"), IntValue(42), NumberValue(2), BoolValue(TRUE),
     GeoValue(52, 4), BlobValue("aGVsbG8="), PhoneValue("020 1234567"),
     NullValue, UnsetValue}

\* A properties_pb2.Properties message with one field.
OneField(name, value) == [fields |-> <<[key |-> name, value |-> value]>>]

\* properties_pb2.ListValue messages: `values` is the pre-1.25 encoding, the
\* oneof of typed sub-lists the 1.25 one.
LegacyList(values) == [populated |-> {}, values |-> values]

SixteenBytes == <<42, 0, 0, 0, 0, 0, 0, 0, 7, 0, 0, 0, 0, 0, 0, 0>>

TypedLists ==
    {[bool_values |-> [values |-> <<TRUE, FALSE>>], populated |-> {"bool_values"},
      values |-> <<>>],
     [int_values |-> [values |-> SixteenBytes], populated |-> {"int_values"},
      values |-> <<>>],
     [number_values |-> [values |-> SixteenBytes], populated |-> {"number_values"},
      values |-> <<>>],
     [populated |-> {"text_values"}, text_values |-> [values |-> <<"a", "b">>],
      values |-> <<>>]}
    \cup {[date_values |-> [values |-> ds], populated |-> {"date_values"}, values |-> <<>>] :
             ds \in {<<GoodDate, "2023-11-14T22:13:20+00:00">>, <<GoodDate, YearZeroDate>>,
                     <<MalformedDate, YearZeroDate>>}}
    \cup {[populated |-> {"uuid_values"}, uuid_values |-> [values |-> us], values |-> <<>>] :
             us \in {<<CanonicalUuid>>, <<CanonicalUuid, MalformedUuid>>}}

ObjectList(objects) ==
    [object_values |-> [values |-> objects], populated |-> {"object_values"},
     values |-> <<>>]

\* The values of nesting depth at most d: the scalars, and the lists and
\* nested objects holding a value of depth at most d - 1.
RECURSIVE WireValues(_)
WireValues(d) ==
    IF d = 0 THEN ScalarValues
    ELSE LET inner == WireValues(d - 1)
         IN  ScalarValues
             \cup {ListValue(l) : l \in TypedLists}
             \cup {ListValue(LegacyList(<<>>))}
             \cup {ListValue(LegacyList(<<v>>)) : v \in inner}
             \cup {ListValue(LegacyList(<<TextValue("t"), v>>)) : v \in inner}
             \cup {ListValue(ObjectList(<<OneField("inner", v)>>)) : v \in inner}
             \cup {ObjectValue(OneField("inner", v)) : v \in inner}

\* The siblings a value is decoded next to.
SiblingValues == {TextValue("sibling"), UuidValue(MalformedUuid), UnsetValue}

\* Property mappings: one field "a" holding any value, alone or with a
\* sibling field "b" before or after it in the map's iteration order.
PropertiesInputs ==
    {[fields |-> <<>>]}
    \cup {OneField("a", v) : v \in WireValues(MaxDepth)}
    \cup {[fields |-> <<[key |-> "a", value |-> v], [key |-> "b", value |-> b]>>] :
             v \in WireValues(MaxDepth), b \in SiblingValues}
    \cup {[fields |-> <<[key |-> "b", value |-> b], [key |-> "a", value |-> v]>>] :
             v \in WireValues(MaxDepth), b \in SiblingValues}

\* A search_get_pb2.PropertiesResult.
PropertiesResult(target, fields, refs, requested, meta) ==
    [metadata |-> meta, non_ref_props |-> [fields |-> fields], ref_props |-> refs,
     ref_props_requested |-> requested, target_collection |-> target]

\* One cross-reference property of a PropertiesResult.
RefProp(name, targets) == [prop_name |-> name, properties |-> targets]

MetaD == MetadataResult({}, NonDefaultValues, <<0, 2>>, TwoFloats, <<>>, "")

Field(name, value) == [key |-> name, value |-> value]

LeafTitle ==
    PropertiesResult("Article", <<Field("title", TextValue("t"))>>, <<>>, FALSE, MetaA)

LeafUnknown ==
    PropertiesResult("Author",
                     <<Field("a", UnsetValue), Field("b", TextValue("sibling"))>>,
                     <<>>, TRUE, MetaB)

LeafYearZero ==
    PropertiesResult("Event",
                     <<Field("when", DateValue(YearZeroDate)),
                       Field("b", TextValue("sibling"))>>,
                     <<>>, FALSE, MetaC)

LeafMalformed ==
    PropertiesResult("Broken",
                     <<Field("id", UuidValue(MalformedUuid)),
                       Field("b", TextValue("sibling"))>>,
                     <<>>, FALSE, MetaD)

LeafEmpty == PropertiesResult("Empty", <<>>, <<>>, FALSE, MetaD)

LeafProperties == {LeafTitle, LeafUnknown, LeafYearZero, LeafMalformed, LeafEmpty}

\* An object referencing two properties' worth of leaves.
Library ==
    PropertiesResult("Library", <<>>,
                     <<RefProp("wrote", <<LeafTitle, LeafUnknown>>),
                       RefProp("cites", <<LeafYearZero>>)>>,
                     TRUE, MetaB)

\* The objects whose chains of cross-references are at most d long.
RECURSIVE PropertiesResults(_)
PropertiesResults(d) ==
    IF d = 0 THEN LeafProperties
    ELSE LeafProperties \cup {Library}
         \cup {PropertiesResult("Article", <<Field("title", TextValue("t"))>>,
                                <<RefProp("wrote", <<p>>)>>, TRUE, MetaA) :
                  p \in PropertiesResults(d - 1)}

\* A search_get_pb2.SearchResult.
SearchResult(properties, generative) ==
    [generative |-> generative, metadata |-> properties.metadata,
     properties |-> properties]

SingleResults ==
    {SearchResult(p, NoGenerative) : p \in PropertiesResults(MaxRefDepth)}
    \cup {SearchResult(LeafTitle, g) : g \in GenerativeResults}
    \cup {SearchResult(LeafYearZero, g) : g \in GenerativeResults}

\* Three results that differ in id and collection, for replies of several.
SeveralResults ==
    {SearchResult(LeafTitle, OneGenerative), SearchResult(LeafUnknown, NoGenerative),
     SearchResult(LeafYearZero, TwoGenerative)}

SeqsUpTo(S, n) == UNION {[1..k -> S] : k \in 0..n}

ResultSeqs == {<<r>> : r \in SingleResults} \cup SeqsUpTo(SeveralResults, MaxResults)

\* A member of a group-by bucket.
Member(properties, id) ==
    [metadata |-> MetadataResult({"distance"}, NonDefaultValues, id, TwoFloats, <<>>, ""),
     properties |-> properties]

\* A search_get_pb2.GroupByResult; `populated` holds those of its optional
\* sub-messages (rerank, generative) that the server set.
GroupByResult(name, members, populated, score, text) ==
    [generative |-> [result |-> text], max_distance |-> 8, min_distance |-> 2,
     name |-> name, number_of_objects |-> Len(members), objects |-> members,
     populated |-> populated, rerank |-> [score |-> score]]

WithReference ==
    PropertiesResult("Article", <<Field("title", TextValue("t"))>>,
                     <<RefProp("wrote", <<LeafUnknown>>)>>, TRUE, MetaA)

Buckets ==
    {GroupByResult("g1", <<Member(LeafTitle, <<0, 11>>), Member(WithReference, <<0, 12>>),
                           Member(LeafYearZero, <<0, 13>>)>>,
                   {"rerank", "generative"}, 4, "g1 text"),
     GroupByResult("g2", <<Member(LeafUnknown, <<0, 21>>)>>, {}, 0, ""),
     GroupByResult("g1", <<Member(LeafEmpty, <<0, 31>>), Member(LeafTitle, <<0, 32>>)>>,
                   {"rerank"}, 6, ""),
     GroupByResult("g3", <<>>, {"generative"}, 0, "g3 text"),
     GroupByResult("g4", <<Member(LeafMalformed, <<0, 41>>)>>, {}, 0, "")}

BucketSeqs == SeqsUpTo(Buckets, MaxGroups)

\* A search_get_pb2.SearchReply.
SearchReply(results, buckets, grouped_result, grouped_results) ==
    [generative_grouped_result |-> grouped_result,
     generative_grouped_results |-> grouped_results,
     group_by_results |-> buckets, results |-> results]

\* Replies carrying both result entries and buckets, with and without the
\* grouped generative sections.
MixedReplies ==
    {SearchReply(rs, bs, t, g) :
        rs \in {<<>>, <<SearchResult(LeafTitle, OneGenerative),
                        SearchResult(LeafUnknown, NoGenerative)>>},
        bs \in {<<>>, <<GroupByResult("g2", <<Member(LeafUnknown, <<0, 21>>)>>, {}, 0, "")>>},
        t \in {"", "grouped text"},
        g \in GenerativeResults}

QueryReplies ==
    {SearchReply(rs, <<>>, "", NoGenerative) : rs \in ResultSeqs} \cup MixedReplies

GroupByReplies ==
    {SearchReply(<<>>, bs, "", NoGenerative) : bs \in BucketSeqs} \cup MixedReplies

\* The options of the assemblers called directly (is_group_by is not read).
IncludeOptions ==
    {QueryOptions(m, p, r, v, FALSE) : m \in BOOLEAN, p \in BOOLEAN, r \in BOOLEAN,
                                       v \in BOOLEAN}

\* The options of the dispatching entry points.
DispatchOptions ==
    {QueryOptions(x, x, r, x, g) : x \in BOOLEAN, r \in BOOLEAN, g \in BOOLEAN}

\* What the executor's owner can declare as the collection's data model
\* (the generics of the collection): nothing, a TypedDict class, or the
\* untyped Dict[str, Any].
DeclaredDataModels ==
    {None, TypedDict(<<"title", "year">>), [type |-> "_GenericAlias"]}

\* Values a caller passes as return_properties or return_references: unset,
\* the boolean shortcuts, field lists, a field name, a nested selection, a
\* reference selection, TypedDict classes, and values of other types
\* (integers, dicts, Dict[str, Any]).
Selections ==
    {None, PyBool(TRUE), PyBool(FALSE),
     ListOf(<<>>), ListOf(<<"title">>), ListOf(<<"year", "title">>),
     PyStrValue("title"),
     [name |-> "meta", properties |-> <<"size">>, type |-> "QueryNested"],
     [link_on |-> "writtenBy", type |-> "_QueryReference"],
     TypedDict(<<"title", "year">>), TypedDict(<<"writtenBy">>),
     PyInt(0), PyInt(5), [type |-> "dict", val |-> <<>>],
     [type |-> "dict", val |-> <<[key |-> "title", value |-> PyBool(TRUE)]>>],
     [type |-> "_GenericAlias"]}

-----------------------------------------------------------------------------
(* Specification *)

Init ==
    /\ weaviate_version \in ServerVersions
    /\ uses_125_api = is_at_least(weaviate_version, 1, 25, 0)
    /\ uses_127_api = is_at_least(weaviate_version, 1, 27, 0)
    /\ self_properties = None
    /\ self_references = None
    /\ op = "idle"
    /\ arg = None
    /\ ret = None
    /\ warned = <<>>

\* One call of a method by the executor's owner (each action takes it when
\* no call is pending): the arguments go in, the outcome and the warnings
\* come out; the executor's fields are not written.
Call(name, a, outcome) ==
    /\ op' = name
    /\ arg' = a
    /\ ret' = [exc |-> outcome.exc, ok |-> outcome.ok, val |-> outcome.val]
    /\ warned' = outcome.w
    /\ UNCHANGED <<weaviate_version, uses_125_api, uses_127_api,
                   self_properties, self_references>>

\* The caller takes the outcome; the executor is ready for the next call.
Return ==
    /\ op # "idle"
    /\ op' = "idle"
    /\ arg' = None
    /\ ret' = None
    /\ warned' = <<>>
    /\ UNCHANGED <<weaviate_version, uses_125_api, uses_127_api,
                   self_properties, self_references>>

RetrieveTimestamp ==
    /\ op = "idle"
    /\ \E t \in EpochInts :
           Call("__retrieve_timestamp", [timestamp |-> t], retrieve_timestamp(t))

ExtractMetadata ==
    /\ op = "idle"
    /\ \E add_props \in MetadataInputs :
           Call("__extract_metadata_for_object", [add_props |-> add_props],
                extract_metadata_for_object(add_props))

ExtractVector ==
    /\ op = "idle"
    /\ \E add_props \in VectorInputs :
           Call("__extract_vector_for_object", [add_props |-> add_props],
                Ok(extract_vector_for_object(add_props)))

ExtractGenerativeMetadata ==
    /\ op = "idle"
    /\ \E metadata \in GenerativeMetadataInputs :
           Call("__extract_generative_metadata", [metadata |-> metadata],
                Ok(extract_generative_metadata(metadata)))

ParseNonrefProperties ==
    /\ op = "idle"
    /\ \E properties \in PropertiesInputs :
           Call("__parse_nonref_properties_result", [properties |-> properties],
                parse_nonref_properties_result(properties))

DeserializeNonRefProp ==
    /\ op = "idle"
    /\ \E value \in WireValues(MaxDepth) :
           Call("__deserialize_non_ref_prop", [value |-> value],
                deserialize_non_ref_prop(value))

ResultToQueryReturn ==
    /\ op = "idle"
    /\ \E res \in QueryReplies, options \in IncludeOptions :
           Call("_result_to_query_return", [options |-> options, res |-> res],
                result_to_query_return(res, options))

ResultToGenerativeQueryReturn ==
    /\ op = "idle"
    /\ \E res \in QueryReplies, options \in IncludeOptions :
           Call("_result_to_generative_query_return", [options |-> options, res |-> res],
                result_to_generative_query_return(res, options))

ResultToGroupbyReturn ==
    /\ op = "idle"
    /\ \E res \in GroupByReplies, options \in IncludeOptions :
           Call("_result_to_groupby_return", [options |-> options, res |-> res],
                result_to_groupby_return(res, options))

ResultToGenerativeGroupbyReturn ==
    /\ op = "idle"
    /\ \E res \in GroupByReplies, options \in IncludeOptions :
           Call("_result_to_generative_groupby_return", [options |-> options, res |-> res],
                result_to_generative_groupby_return(res, options))

ResultToGenerativeReturn ==
    /\ op = "idle"
    /\ \E res \in QueryReplies \cup GroupByReplies, options \in DispatchOptions :
           Call("_result_to_generative_return", [options |-> options, res |-> res],
                result_to_generative_return(res, options))

ResultToQueryOrGroupbyReturn ==
    /\ op = "idle"
    /\ \E res \in QueryReplies \cup GroupByReplies, options \in DispatchOptions :
           Call("_result_to_query_or_groupby_return", [options |-> options, res |-> res],
                result_to_query_or_groupby_return(res, options))

Next ==
    \/ RetrieveTimestamp
    \/ DeserializeNonRefProp
    \/ ResultToQueryReturn
    \/ ResultToGenerativeQueryReturn
    \/ ResultToGroupbyReturn
    \/ ResultToGenerativeGroupbyReturn
    \/ ResultToGenerativeReturn
    \/ ResultToQueryOrGroupbyReturn
    \/ ParseNonrefProperties
    \/ ExtractMetadata
    \/ ExtractGenerativeMetadata
    \/ ExtractVector
    \/ Return

Spec == Init /\ [][Next]_vars

\* The request side of a collection: the executor, whose owner may have
\* declared a data model, resolving selections, and the cluster status.
InitDeclared ==
    /\ weaviate_version \in ServerVersions
    /\ uses_125_api = is_at_least(weaviate_version, 1, 25, 0)
    /\ uses_127_api = is_at_least(weaviate_version, 1, 27, 0)
    /\ self_properties \in DeclaredDataModels
    /\ self_references \in DeclaredDataModels
    /\ op = "idle"
    /\ arg = None
    /\ ret = None
    /\ warned = <<>>

ParseReturnProperties ==
    /\ op = "idle"
    /\ \E return_properties \in Selections :
           Call("_parse_return_properties",
                [return_properties |-> return_properties],
                parse_return_properties(return_properties))

ParseReturnReferences ==
    /\ op = "idle"
    /\ \E return_references \in Selections :
           Call("_parse_return_references",
                [return_references |-> return_references],
                parse_return_references(return_references))

\* One call of _Cluster.nodes: the collection name, the verbosity and the
\* decoded answer of the connection are drawn; the path requested is kept
\* beside the arguments.
Nodes ==
    /\ op = "idle"
    /\ \E collection \in {None, PyStrValue(<<>>), PyStrValue(<<"a", "b">>),
                          PyStrValue(<<"A", "b">>), PyStrValue(<<"b", "A">>)},
          output \in {None, PyStrValue("minimal"), PyStrValue("verbose")},
          listed \in {<<>>,
                      <<[key |-> "error", value |-> PyStrValue("none")]>>,
                      <<[key |-> "nodes", value |-> None]>>,
                      <<[key |-> "nodes", value |-> ListOf(<<>>)]>>,
                      <<[key |-> "nodes",
                         value |-> ListOf(<<[name |-> "node1",
                                             shards |-> ListOf(<<"shard1">>),
                                             status |-> "HEALTHY"]>>)]>>,
                      <<[key |-> "nodes",
                         value |-> ListOf(<<[name |-> "node2",
                                             shards |-> None,
                                             status |-> "UNHEALTHY"],
                                            [name |-> "node1",
                                             shards |-> ListOf(<<"shard1">>),
                                             status |-> "HEALTHY"]>>)]>>} :
           Call("nodes",
                [collection |-> collection, output |-> output,
                 path |-> nodes(collection, output, listed).path,
                 response |-> listed],
                nodes(collection, output, listed).returned)

RequestNext ==
    \/ ParseReturnProperties
    \/ ParseReturnReferences
    \/ Nodes
    \/ Return

RequestSpec == InitDeclared /\ [][RequestNext]_vars

-----------------------------------------------------------------------------
(* Claims *)

Absent(x) == x = None

Returned(name) == op = name /\ ret.ok

\* C4: each of the eight metadata fields is present in the decoded record if
\* and only if its own presence flag is set, whatever the other flags and the
\* wire value are; a present field holds the wire value (a flagged zero is a
\* present zero), and the two timestamps hold the decoded wire epoch.
MetadataPresentIffFlagged ==
    op = "__extract_metadata_for_object" =>
        LET m == arg.add_props
            r == ret.val
        IN  /\ ret.ok
            /\ r.distance = (IF m.distance_present THEN PyFloat(m.distance) ELSE None)
            /\ r.certainty = (IF m.certainty_present THEN PyFloat(m.certainty) ELSE None)
            /\ Absent(r.creation_time) <=> ~m.creation_time_unix_present
            /\ m.creation_time_unix_present =>
                   r.creation_time.epoch = m.creation_time_unix
            /\ Absent(r.last_update_time) <=> ~m.last_update_time_unix_present
            /\ m.last_update_time_unix_present =>
                   r.last_update_time.epoch = m.last_update_time_unix
            /\ r.score = (IF m.score_present THEN PyFloat(m.score) ELSE None)
            /\ r.explain_score =
                   (IF m.explain_score_present THEN PyStrValue(m.explain_score) ELSE None)
            /\ r.is_consistent =
                   (IF m.is_consistent_present THEN PyBool(m.is_consistent) ELSE None)
            /\ r.rerank_score =
                   (IF m.rerank_score_present THEN PyFloat(m.rerank_score) ELSE None)

\* C4 witness: only distance and score are flagged; the flagged zero score is
\* a present zero, and the unflagged rerank score 9 is absent.
MetadataFlaggedZeroUnflaggedNine ==
    /\ Returned("__extract_metadata_for_object")
    /\ arg.add_props.distance_present /\ arg.add_props.score_present
    /\ ~arg.add_props.certainty_present /\ ~arg.add_props.rerank_score_present
    /\ arg.add_props.score = 0 /\ arg.add_props.rerank_score = 9
    /\ ret.val.score = PyFloat(0)
    /\ Absent(ret.val.rerank_score)
    /\ Absent(ret.val.certainty)

\* C5 (as claimed): timestamp decoding never fails, and it reads the epoch
\* value as milliseconds when its count of decimal digits (the sign is not a
\* digit) is at most 13 and as nanoseconds when it is 14 or more.
TimestampUnitByDigitCount ==
    op = "__retrieve_timestamp" =>
        /\ ret.ok
        /\ ret.val.divisor =
               (IF Len(arg.timestamp.digits) <= 13 THEN 1000 ELSE 1000000000)

ProviderOrder ==
    <<"anthropic", "anyscale", "aws", "cohere", "databricks", "dummy",
      "friendliai", "google", "mistral", "nvidia", "ollama", "openai">>

FirstPopulated(populated) ==
    ProviderOrder[CHOOSE i \in 1..Len(ProviderOrder) :
                      /\ ProviderOrder[i] \in populated
                      /\ \A j \in 1..(i - 1) : ProviderOrder[j] \notin populated]

\* C8: provider-metadata decoding returns the populated variant that comes
\* first in the order anthropic, anyscale, aws, cohere, databricks, dummy,
\* friendliai, google, mistral, nvidia, ollama, openai (so the one populated
\* variant when exactly one is), and absent when none is populated.
ProviderMetadataFirstPopulated ==
    op = "__extract_generative_metadata" =>
        /\ ret.ok
        /\ IF arg.metadata.populated = {}
           THEN Absent(ret.val)
           ELSE /\ ret.val.type = "GenerativeMetadata"
                /\ ret.val.provider = FirstPopulated(arg.metadata.populated)

\* C8 witness: only the cohere variant is populated and it is the one returned.
OnlyCohereReturnsCohere ==
    /\ Returned("__extract_generative_metadata")
    /\ arg.metadata.populated = {"cohere"}
    /\ ret.val.provider = "cohere"

-----------------------------------------------------------------------------
(* Claims about property values: C2, C3 *)

InSeq(x, xs) == \E k \in 1..Len(xs) : xs[k] = x

\* No recognised tag is set: a scalar value with none of its fields set, or,
\* from server 1.25.0 on, a list value with none of its typed sub-lists set.
Untagged(value) ==
    \/ value.populated = {}
    \/ /\ value.populated = {"list_value"}
       /\ is_at_least(weaviate_version, 1, 25, 0)
       /\ value.list_value.populated = {}

IsText(value) == value.populated = {"text_value"}

IsYearZero(value) == value.populated = {"date_value"} /\ value.date_value = YearZeroDate

\* C2: a wire value with no recognised tag set decodes to null with the
\* unknown-type diagnostic and without raising; in a property mapping the call
\* returns when the other fields are such values or texts, the untagged field
\* maps to null and the text fields map to their texts.
UnknownTagWarnsAndYieldsNull ==
    /\ (op = "__deserialize_non_ref_prop" /\ Untagged(arg.value)) =>
           /\ ret.ok
           /\ Absent(ret.val)
           /\ warned = <<Grpc002>>
    /\ op = "__parse_nonref_properties_result" =>
           LET fields == arg.properties.fields
           IN  \A i \in 1..Len(fields) :
                   Untagged(fields[i].value) =>
                       /\ (\A j \in 1..Len(fields) :
                               Untagged(fields[j].value) \/ IsText(fields[j].value))
                              => ret.ok
                       /\ ret.ok =>
                              /\ Absent(DictValue(ret.val, fields[i].key))
                              /\ InSeq(Grpc002, warned)
                              /\ \A j \in 1..Len(fields) :
                                     IsText(fields[j].value) =>
                                         DictValue(ret.val, fields[j].key)
                                             = PyStrValue(fields[j].value.text_value)

\* C2 witness: field "a" has no tag set and its sibling "b" is a text; the
\* call returns {"a": None, "b": "sibling"} with one diagnostic.
UntaggedFieldBesideText ==
    /\ Returned("__parse_nonref_properties_result")
    /\ Len(arg.properties.fields) = 2
    /\ arg.properties.fields[1].key = "a"
    /\ arg.properties.fields[1].value.populated = {}
    /\ IsText(arg.properties.fields[2].value)
    /\ Absent(DictValue(ret.val, "a"))
    /\ DictValue(ret.val, "b") = PyStrValue("sibling")
    /\ warned = <<Grpc002>>

\* The value holds, where the decoder of this server version reads it, a
\* string that the strict UUID or date parse rejects.
RECURSIVE MalformedValue(_)
MalformedValue(value) ==
    \/ value.populated = {"uuid_value"} /\ value.uuid_value = MalformedUuid
    \/ value.populated = {"date_value"} /\ value.date_value = MalformedDate
    \/ /\ value.populated = {"object_value"}
       /\ \E i \in 1..Len(value.object_value.fields) :
              MalformedValue(value.object_value.fields[i].value)
    \/ /\ value.populated = {"list_value"}
       /\ LET list == value.list_value
          IN  IF is_at_least(weaviate_version, 1, 25, 0)
              THEN \/ /\ list.populated = {"uuid_values"}
                      /\ InSeq(MalformedUuid, list.uuid_values.values)
                   \/ /\ list.populated = {"date_values"}
                      /\ InSeq(MalformedDate, list.date_values.values)
                   \/ /\ list.populated = {"object_values"}
                      /\ \E i \in 1..Len(list.object_values.values) :
                             \E k \in 1..Len(list.object_values.values[i].fields) :
                                 MalformedValue(list.object_values.values[i].fields[k].value)
              ELSE \E i \in 1..Len(list.values) : MalformedValue(list.values[i])

MalformedProperties(properties) ==
    \E i \in 1..Len(properties.fields) : MalformedValue(properties.fields[i].value)

\* Decoding the object reads a malformed string: among its own properties
\* when they are included, or in an object it references when references are.
RECURSIVE MalformedObject(_, _)
MalformedObject(props, options) ==
    \/ options.include_properties /\ MalformedProperties(props.non_ref_props)
    \/ /\ options.include_references
       /\ \E i \in 1..Len(props.ref_props) :
              \E j \in 1..Len(props.ref_props[i].properties) :
                  MalformedObject(props.ref_props[i].properties[j],
                                  QueryOptions(TRUE, TRUE, TRUE, TRUE, FALSE))

ReplyOps ==
    {"_result_to_query_return", "_result_to_generative_query_return",
     "_result_to_groupby_return", "_result_to_generative_groupby_return",
     "_result_to_generative_return", "_result_to_query_or_groupby_return"}

\* The call decodes the reply's buckets (otherwise its result entries).
DecodesBuckets ==
    \/ op \in {"_result_to_groupby_return", "_result_to_generative_groupby_return"}
    \/ /\ op \in {"_result_to_generative_return", "_result_to_query_or_groupby_return"}
       /\ arg.options.is_group_by

MalformedReply ==
    IF DecodesBuckets
    THEN \E b \in 1..Len(arg.res.group_by_results) :
             \E m \in 1..Len(arg.res.group_by_results[b].objects) :
                 MalformedObject(arg.res.group_by_results[b].objects[m].properties,
                                 arg.options)
    ELSE \E i \in 1..Len(arg.res.results) :
             MalformedObject(arg.res.results[i].properties, arg.options)

\* C3 (as claimed): an anomaly in one value (unknown tag, malformed UUID
\* string, malformed or year-zero date string) never aborts the call: decoding
\* a property mapping or a reply always returns a result.
DecodeAnomalyNeverAborts ==
    op \in ReplyOps \cup {"__parse_nonref_properties_result"} => ret.ok

\* C3 (amended): an unknown tag and a year-zero date affect only their own
\* value (null with the Grpc002 diagnostic, the minimum date with the Con004
\* warning) and the sibling fields and objects are decoded; a malformed UUID
\* or date string is not isolated: the call raises ValueError exactly when
\* it reads one, and returns otherwise.
OnlyMalformedStringsAbort ==
    /\ op = "__parse_nonref_properties_result" =>
           LET fields == arg.properties.fields
           IN  /\ ret.ok <=> ~MalformedProperties(arg.properties)
               /\ ~ret.ok => ret.exc = "ValueError"
               /\ ret.ok =>
                      \A i \in 1..Len(fields) :
                          LET decoded == DictValue(ret.val, fields[i].key)
                          IN  /\ Untagged(fields[i].value) =>
                                     Absent(decoded) /\ InSeq(Grpc002, warned)
                              /\ IsYearZero(fields[i].value) =>
                                     /\ decoded.instant = "datetime.min"
                                     /\ InSeq(Con004, warned)
                              /\ IsText(fields[i].value) =>
                                     decoded = PyStrValue(fields[i].value.text_value)
    /\ op \in ReplyOps =>
           /\ ret.ok <=> ~MalformedReply
           /\ ~ret.ok => ret.exc = "ValueError"
           /\ (ret.ok /\ ~DecodesBuckets) =>
                  Len(ret.val.objects) = Len(arg.res.results)

\* C3 witness: a reply of three objects, the second with an untagged field
\* and the third with a year-zero date, is decoded in full with both warnings.
AnomaliesBesideSiblingsDecoded ==
    /\ Returned("_result_to_query_return")
    /\ arg.options.include_properties
    /\ Len(arg.res.results) = 3
    /\ arg.res.results[1].properties.target_collection = "Article"
    /\ arg.res.results[2].properties.target_collection = "Author"
    /\ arg.res.results[3].properties.target_collection = "Event"
    /\ Untagged(arg.res.results[2].properties.non_ref_props.fields[1].value)
    /\ IsYearZero(arg.res.results[3].properties.non_ref_props.fields[1].value)
    /\ Len(ret.val.objects) = 3
    /\ DictValue(ret.val.objects[1].properties, "title") = PyStrValue("t")
    /\ Absent(DictValue(ret.val.objects[2].properties, "a"))
    /\ DictValue(ret.val.objects[2].properties, "b") = PyStrValue("sibling")
    /\ DictValue(ret.val.objects[3].properties, "when").instant = "datetime.min"
    /\ warned = <<Grpc002, Con004>>

\* C3: the call that a malformed UUID string aborts, its sibling a plain text.
MalformedUuidAbortsCall ==
    /\ op = "__parse_nonref_properties_result"
    /\ Len(arg.properties.fields) = 2
    /\ arg.properties.fields[1].value = TextValue("sibling")
    /\ arg.properties.fields[2].value = UuidValue(MalformedUuid)
    /\ ~ret.ok
    /\ ret.exc = "ValueError"

-----------------------------------------------------------------------------
(* Claims about reply assembly: C1, C6, C7, C9, C10 *)

FieldKeys(properties) == {properties.fields[i].key : i \in 1..Len(properties.fields)}

\* C1: when _result_to_query_return or _result_to_generative_query_return
\* returns, its object list has as many entries as the reply has result
\* entries and entry i is decoded from result i (its id, its collection and,
\* when properties are included, its property names), whatever the options.
ObjectListFollowsResults ==
    (op \in {"_result_to_query_return", "_result_to_generative_query_return"} /\ ret.ok) =>
        /\ Len(ret.val.objects) = Len(arg.res.results)
        /\ \A i \in 1..Len(arg.res.results) :
               LET result == arg.res.results[i]
                   object == ret.val.objects[i]
               IN  /\ object.uuid.int = int_from_bytes_big(result.metadata.id_as_bytes)
                   /\ object.collection = result.properties.target_collection
                   /\ arg.options.include_properties =>
                          DictKeys(object.properties)
                              = FieldKeys(result.properties.non_ref_props)

\* C1 witness: three results that differ pairwise come back as three objects
\* in the reply's order.
ThreeResultsThreeObjectsInOrder ==
    /\ Returned("_result_to_generative_query_return")
    /\ Len(arg.res.results) = 3
    /\ arg.res.results[1].properties.target_collection = "Event"
    /\ arg.res.results[2].properties.target_collection = "Article"
    /\ arg.res.results[3].properties.target_collection = "Author"
    /\ Len(ret.val.objects) = 3
    /\ ret.val.objects[1].collection = "Event"
    /\ ret.val.objects[2].collection = "Article"
    /\ ret.val.objects[3].collection = "Author"
    /\ ret.val.objects[1].uuid.int = 65535
    /\ ret.val.objects[2].uuid.int = 1
    /\ ret.val.objects[3].uuid.int = 256

RECURSIVE Concatenation(_)
Concatenation(seqs) ==
    IF Len(seqs) = 0 THEN <<>> ELSE Head(seqs) \o Concatenation(Tail(seqs))

\* The members of a bucket as the flattened list shows them: the id of each
\* with the name of the bucket.
TaggedMembers(bucket) ==
    [m \in 1..Len(bucket.objects) |->
        [int |-> int_from_bytes_big(bucket.objects[m].metadata.id_as_bytes),
         name |-> bucket.name]]

TaggedObjects(objects) ==
    [t \in 1..Len(objects) |->
        [int |-> objects[t].uuid.int, name |-> objects[t].belongs_to_group]]

\* The positions of the buckets that are the first to carry their name, in
\* ascending order.
RECURSIVE Ascending(_)
Ascending(S) ==
    IF S = {} THEN <<>>
    ELSE LET least == CHOOSE x \in S : \A y \in S : x <= y
         IN  <<least>> \o Ascending(S \ {least})

FirstOccurrences(buckets) ==
    Ascending({i \in 1..Len(buckets) :
                  \A j \in 1..(i - 1) : buckets[j].name # buckets[i].name})

\* The last bucket carrying the name of bucket i.
LastNamedLike(buckets, i) ==
    buckets[CHOOSE j \in 1..Len(buckets) :
                /\ buckets[j].name = buckets[i].name
                /\ \A l \in (j + 1)..Len(buckets) : buckets[l].name # buckets[i].name]

\* The buckets a name-keyed collection retains: per distinct name, in order
\* of first occurrence, the last bucket carrying it.
Retained(buckets) ==
    LET first == FirstOccurrences(buckets)
    IN  [k \in 1..Len(first) |-> LastNamedLike(buckets, first[k])]

DistinctNames(buckets) ==
    \A i, j \in 1..Len(buckets) : i # j => buckets[i].name # buckets[j].name

GroupByCall == DecodesBuckets /\ ret.ok

\* C6 (as claimed): the flattened object list of a group-by reply is the
\* concatenation of the buckets' member lists in bucket order, its length the
\* sum of the bucket sizes, each entry tagged with its bucket's name.
FlattenedIsAllBuckets ==
    GroupByCall =>
        TaggedObjects(ret.val.objects)
            = Concatenation([b \in 1..Len(arg.res.group_by_results) |->
                                TaggedMembers(arg.res.group_by_results[b])])

\* C6 (amended): the flattened object list is the concatenation of the member
\* lists of the buckets the groups collection retains (per distinct name, in
\* order of first occurrence, the last bucket of that name), member order
\* preserved and each entry tagged with its bucket's name; when the names
\* are pairwise distinct that is every bucket, in reply order.
FlattenedIsRetainedBuckets ==
    GroupByCall =>
        LET buckets  == arg.res.group_by_results
            retained == Retained(buckets)
        IN  /\ TaggedObjects(ret.val.objects)
                   = Concatenation([k \in 1..Len(retained) |-> TaggedMembers(retained[k])])
            /\ DistinctNames(buckets) =>
                   /\ retained = buckets
                   /\ Len(ret.val.objects)
                          = Len(Concatenation([b \in 1..Len(buckets) |->
                                                  buckets[b].objects]))
            /\ \A t \in 1..Len(ret.val.objects) :
                   ret.val.objects[t].type = "GroupByObject"

\* C6 witness: buckets g1 of size 3 and g2 of size 1 give 4 entries, the
\* first three tagged g1 and the last tagged g2.
BucketsOfThreeAndOneGiveFour ==
    /\ op = "_result_to_generative_groupby_return" /\ ret.ok
    /\ Len(arg.res.group_by_results) = 2
    /\ Len(arg.res.group_by_results[1].objects) = 3
    /\ Len(arg.res.group_by_results[2].objects) = 1
    /\ Len(ret.val.objects) = 4
    /\ TaggedObjects(ret.val.objects)
           = <<[int |-> 11, name |-> "g1"], [int |-> 12, name |-> "g1"],
               [int |-> 13, name |-> "g1"], [int |-> 21, name |-> "g2"]>>


\* The group is the record built from the bucket.
BuiltFrom(group, bucket) ==
    /\ group.name = bucket.name
    /\ group.number_of_objects = bucket.number_of_objects
    /\ group.min_distance = bucket.min_distance
    /\ group.max_distance = bucket.max_distance
    /\ TaggedObjects(group.objects) = TaggedMembers(bucket)

GroupTypes == {"Group", "GenerativeGroup"}

\* C7 (as claimed): the groups collection holds one group per bucket, the
\* i-th built from the i-th bucket, also when two buckets carry the same name.
OneGroupPerBucket ==
    GroupByCall =>
        /\ Len(ret.val.groups) = Len(arg.res.group_by_results)
        /\ \A i \in 1..Len(arg.res.group_by_results) :
               BuiltFrom(ret.val.groups[i].value, arg.res.group_by_results[i])

\* C7 (amended): the groups collection is keyed by bucket name: it holds one
\* group per distinct name, in order of first occurrence, built from the last
\* bucket carrying that name; when the K names are pairwise distinct it
\* holds K groups, the i-th built from the i-th bucket.
OneGroupPerDistinctName ==
    GroupByCall =>
        LET buckets  == arg.res.group_by_results
            retained == Retained(buckets)
        IN  /\ Len(ret.val.groups) = Cardinality({buckets[i].name : i \in 1..Len(buckets)})
            /\ Len(ret.val.groups) = Len(retained)
            /\ \A k \in 1..Len(retained) :
                   /\ ret.val.groups[k].key = retained[k].name
                   /\ ret.val.groups[k].value.type \in GroupTypes
                   /\ BuiltFrom(ret.val.groups[k].value, retained[k])
            /\ DistinctNames(buckets) =>
                   /\ Len(ret.val.groups) = Len(buckets)
                   /\ \A i \in 1..Len(buckets) :
                          BuiltFrom(ret.val.groups[i].value, buckets[i])


\* C7: two buckets named g1 give one group, built from the second.
SameNameBucketsGiveOneGroup ==
    /\ op = "_result_to_generative_groupby_return" /\ ret.ok
    /\ Len(arg.res.group_by_results) = 2
    /\ arg.res.group_by_results[1].name = "g1"
    /\ arg.res.group_by_results[2].name = "g1"
    /\ arg.res.group_by_results[1] # arg.res.group_by_results[2]
    /\ Len(ret.val.groups) = 1
    /\ BuiltFrom(ret.val.groups[1].value, arg.res.group_by_results[2])

IsEmptyDict(x) == DOMAIN x = {}

\* The object was decoded from the referenced PropertiesResult p with
\* properties, metadata and vectors included, as a plain Object without
\* generative fields.
DecodedInFull(object, p) ==
    /\ object.type = "Object"
    /\ "generated" \notin DOMAIN object
    /\ "generative" \notin DOMAIN object
    /\ object.collection = p.target_collection
    /\ object.uuid.int = int_from_bytes_big(p.metadata.id_as_bytes)
    /\ DictKeys(object.properties) = FieldKeys(p.non_ref_props)
    /\ object.metadata.type = "MetadataReturn"
    /\ Absent(object.metadata.distance) <=> ~p.metadata.distance_present
    /\ Absent(object.metadata.is_consistent) <=> ~p.metadata.is_consistent_present
    /\ IF Len(p.metadata.vector_bytes) > 0
       THEN DictKeys(object.vector) = {"default"}
       ELSE DictKeys(object.vector)
                = {p.metadata.vectors[i].name : i \in 1..Len(p.metadata.vectors)}
    /\ Len(p.ref_props) = 0 =>
           IF p.ref_props_requested
           THEN IsEmptyDict(object.references)
           ELSE ~IsEmptyDict(object.references) /\ Absent(object.references)

\* Every object reached from `references`, the decoded cross-references of
\* the PropertiesResult props (whose reference names are pairwise distinct),
\* was decoded in full, at every depth.
RECURSIVE ReferencesInFull(_, _)
ReferencesInFull(references, props) ==
    /\ Len(references) = Len(props.ref_props)
    /\ \A i \in 1..Len(props.ref_props) :
           LET ref     == references[i]
               targets == props.ref_props[i].properties
           IN  /\ ref.key = props.ref_props[i].prop_name
               /\ ref.value.type = "_CrossReference"
               /\ Len(ref.value.objects) = Len(targets)
               /\ \A j \in 1..Len(targets) :
                      /\ DecodedInFull(ref.value.objects[j], targets[j])
                      /\ Len(targets[j].ref_props) > 0 =>
                             ReferencesInFull(ref.value.objects[j].references, targets[j])

\* C9: under each of the result shapes and whatever the outer options are,
\* every object reached through a cross-reference, at every depth, is a plain
\* Object without generative fields that carries its properties, metadata,
\* references and vectors.
ReferencedObjectsDecodedInFull ==
    (op \in ReplyOps /\ ret.ok /\ arg.options.include_references) =>
        IF DecodesBuckets
        THEN DistinctNames(arg.res.group_by_results) =>
                 \A b \in 1..Len(arg.res.group_by_results) :
                     \A m \in 1..Len(arg.res.group_by_results[b].objects) :
                         LET props == arg.res.group_by_results[b].objects[m].properties
                         IN  Len(props.ref_props) > 0 =>
                                 ReferencesInFull(
                                     ret.val.groups[b].value.objects[m].references, props)
        ELSE \A i \in 1..Len(arg.res.results) :
                 LET props == arg.res.results[i].properties
                 IN  Len(props.ref_props) > 0 =>
                         ReferencesInFull(ret.val.objects[i].references, props)

\* C9 witness: a generative request that excludes properties, metadata and
\* vectors; the object it returns has none of them, and the object two
\* references down has its title, its distance and its vector, and no
\* generative field.
NestedReferenceDecodedInFull ==
    /\ Returned("_result_to_generative_query_return")
    /\ arg.options = QueryOptions(FALSE, FALSE, TRUE, FALSE, FALSE)
    /\ Len(arg.res.results) = 1
    /\ Len(arg.res.results[1].properties.ref_props) = 1
    /\ Len(arg.res.results[1].properties.ref_props[1].properties) = 1
    /\ arg.res.results[1].properties.ref_props[1].properties[1].ref_props
           = <<RefProp("wrote", <<LeafTitle>>)>>
    /\ LET outer  == ret.val.objects[1]
           middle == outer.references[1].value.objects[1]
           inner  == middle.references[1].value.objects[1]
       IN  /\ outer.type = "GenerativeObject"
           /\ "generative" \in DOMAIN outer
           /\ IsEmptyDict(outer.properties)
           /\ IsEmptyDict(outer.vector)
           /\ Absent(outer.metadata.distance)
           /\ inner.type = "Object"
           /\ "generative" \notin DOMAIN inner
           /\ DictValue(inner.properties, "title") = PyStrValue("t")
           /\ inner.metadata.distance = PyFloat(3)
           /\ DictKeys(inner.vector) = {"default"}
           /\ DictKeys(middle.vector) = {"default"}

\* C10: the shape returned is decided by the entry point called (generative
\* or not) and by options.is_group_by alone, whatever the reply carries.
ShapeFromFlagsOnly ==
    /\ (op = "_result_to_query_or_groupby_return" /\ ret.ok) =>
           ret.val.type = (IF arg.options.is_group_by THEN "GroupByReturn"
                           ELSE "QueryReturn")
    /\ (op = "_result_to_generative_return" /\ ret.ok) =>
           ret.val.type = (IF arg.options.is_group_by THEN "GenerativeGroupByReturn"
                           ELSE "GenerativeReturn")
    /\ (op = "_result_to_query_return" /\ ret.ok) => ret.val.type = "QueryReturn"
    /\ (op = "_result_to_generative_query_return" /\ ret.ok) =>
           ret.val.type = "GenerativeReturn"
    /\ (op = "_result_to_groupby_return" /\ ret.ok) => ret.val.type = "GroupByReturn"
    /\ (op = "_result_to_generative_groupby_return" /\ ret.ok) =>
           ret.val.type = "GenerativeGroupByReturn"

\* C10 witness: a reply that carries a bucket and grouped generative
\* sections, asked for without is_group_by through the plain entry point,
\* comes back as a plain object list.
BucketsInReplyStillPlainList ==
    /\ Returned("_result_to_query_or_groupby_return")
    /\ ~arg.options.is_group_by
    /\ Len(arg.res.group_by_results) > 0
    /\ Len(arg.res.results) = 2
    /\ arg.res.generative_grouped_result # ""
    /\ Len(arg.res.generative_grouped_results.values) > 0
    /\ ret.val.type = "QueryReturn"
    /\ Len(ret.val.objects) = 2

-----------------------------------------------------------------------------
(* Claims about the selection resolvers: C11, C12, C13, C14 *)

Resolved(name) == op = name /\ ret.ok

EmptySelection == ListOf(<<>>)

\* C11: _parse_return_properties returns the explicit empty selection []
\* whenever the requested-properties argument is an empty list or False,
\* whatever data model the executor has declared (none included).
EmptyOrFalseSelectsNothing ==
    /\ op = "_parse_return_properties"
    /\ arg.return_properties \in {EmptySelection, PyBool(FALSE)}
    => /\ ret.ok
       /\ ret.val = EmptySelection

\* C11 witness: False resolved to [] by an executor with a declared TypedDict.
FalseWithDeclaredModelSelectsNothing ==
    /\ Resolved("_parse_return_properties")
    /\ self_properties = TypedDict(<<"title", "year">>)
    /\ arg.return_properties = PyBool(FALSE)
    /\ ret.val = EmptySelection

\* The selection argument and the declared data model of a resolver call.
SelectionArgument ==
    IF op = "_parse_return_properties" THEN arg.return_properties
    ELSE arg.return_references

DeclaredModel ==
    IF op = "_parse_return_properties" THEN self_properties
    ELSE self_references

ResolverCall == op \in {"_parse_return_properties", "_parse_return_references"}

\* C12: when the selection argument is unset (None), both resolvers return
\* the list of the declared TypedDict's field names, in declaration order,
\* if the executor has declared one, and return unset if the executor has
\* declared no data model (or one that is not a TypedDict and so declares
\* no fields).
UnsetSelectionFollowsDeclaredModel ==
    ResolverCall /\ SelectionArgument = None
    => /\ ret.ok
       /\ ret.val = IF is_typeddict(DeclaredModel)
                    THEN ListOf(DeclaredModel.fields)
                    ELSE None

\* C12 witness: return_properties unset, declared fields title and year, the
\* result is [title, year]; and the same call of an executor without a data
\* model is seen returning unset by UnsetWithoutModelStaysUnset.
UnsetWithTitleYearModelGivesTitleYear ==
    /\ Resolved("_parse_return_properties")
    /\ arg.return_properties = None
    /\ self_properties = TypedDict(<<"title", "year">>)
    /\ ret.val = ListOf(<<"title", "year">>)

UnsetWithoutModelStaysUnset ==
    /\ Resolved("_parse_return_references")
    /\ arg.return_references = None
    /\ self_references = None
    /\ ret.val = None

\* The shapes a selection may have: unset, a boolean shortcut, a field list
\* or field name, a nested or reference selection, a TypedDict class.
SelectionShapes ==
    {"NoneType", "bool", "list", "tuple", "str", "QueryNested",
     "_QueryReference", "_TypedDictMeta"}

ParameterName ==
    IF op = "_parse_return_properties" THEN "return_properties"
    ELSE "return_references"

\* C13: every selection argument of an invalid shape (not unset, not a
\* boolean, not a field list, name or nested selection, not a TypedDict)
\* makes the resolver raise WeaviateInvalidInputError with a message that
\* names the parameter and the received type; none is returned as a
\* selection.
InvalidShapeAlwaysRejected ==
    ResolverCall /\ SelectionArgument.type \notin SelectionShapes
    => /\ ~ret.ok
       /\ ret.exc = "WeaviateInvalidInputError"
       /\ ret.val.message[1] = ParameterName
       /\ ret.val.message[6] = SelectionArgument.type

\* C14: when the caller passes a TypedDict class as the selection, the
\* resolver's result is the field list of that class alone: it is the same
\* for every data model the executor has declared, and for none.
ExplicitModelOverridesDeclared ==
    ResolverCall /\ is_typeddict(SelectionArgument)
    => /\ ret.ok
       /\ ret.val = ListOf(SelectionArgument.fields)

\* C14 witness: an executor that declared title and year, called with a
\* TypedDict of one other field, resolves to that one field.
OtherModelBesideDeclaredWins ==
    /\ Resolved("_parse_return_properties")
    /\ self_properties = TypedDict(<<"title", "year">>)
    /\ arg.return_properties = TypedDict(<<"writtenBy">>)
    /\ ret.val = ListOf(<<"writtenBy">>)

-----------------------------------------------------------------------------
(* Claims about generated text, vectors and references: C15, C16, C17, C18 *)

\* The text of the first entry of a structured generative payload.
FirstGenerativeText(payload) ==
    IF Len(payload.values) > 0 THEN PyStrValue(payload.values[1].result) ELSE None

\* The metadata side channel: the generative field under its presence flag.
SideChannelText(meta) ==
    IF meta.generative_present THEN PyStrValue(meta.generative) ELSE None

\* C15: the generated text of each object of a generative object list is
\* chosen by the 1.27 capability flag alone: on a 1.27+ server it is the
\* result of the first entry of the object's generative payload (absent when
\* the payload is empty), whatever the metadata carries; on an older server
\* it is the metadata generative field when its presence flag is set (absent
\* otherwise), whatever the payload carries.
GeneratedTextByCapabilityFlag ==
    Returned("_result_to_generative_query_return") =>
        \A i \in 1..Len(arg.res.results) :
            ret.val.objects[i].generated
                = IF uses_127_api
                  THEN FirstGenerativeText(arg.res.results[i].generative)
                  ELSE SideChannelText(arg.res.results[i].metadata)

\* C15 witness: a 1.27 server, a result whose metadata carries "side channel"
\* under a set flag and whose payload carries "generated text": the object's
\* generated text is "generated text".
PayloadWinsOverSideChannelOn127 ==
    /\ Returned("_result_to_generative_query_return")
    /\ uses_127_api
    /\ Len(arg.res.results) = 1
    /\ arg.res.results[1].metadata.generative_present
    /\ arg.res.results[1].metadata.generative = "side channel"
    /\ arg.res.results[1].generative = OneGenerative
    /\ ret.val.objects[1].generated = PyStrValue("generated text")

\* The same result decoded for an older server: the side channel is taken.
SideChannelWinsOverPayloadBefore127 ==
    /\ Returned("_result_to_generative_query_return")
    /\ ~uses_127_api
    /\ Len(arg.res.results) = 1
    /\ arg.res.results[1].metadata.generative_present
    /\ arg.res.results[1].generative = OneGenerative
    /\ ret.val.objects[1].generated = PyStrValue("side channel")

\* C16: the reply-level grouped generated text is the deprecated flat-string
\* field when that is non-empty, otherwise the result of the first entry of
\* the structured grouped-results list when that list is non-empty,
\* otherwise absent, in the generative object-list result and in the
\* generative group-by result alike.
GroupedTextFirstPopulatedSource ==
    /\ op \in {"_result_to_generative_query_return",
               "_result_to_generative_groupby_return"}
    /\ ret.ok
    => ret.val.generated
           = IF arg.res.generative_grouped_result # ""
             THEN PyStrValue(arg.res.generative_grouped_result)
             ELSE FirstGenerativeText(arg.res.generative_grouped_results)

\* The decoding the type tag of a named vector entry selects.
DecodedByTag(vec) ==
    IF vec.type = VECTOR_TYPE_MULTI_FP32
    THEN unpack_multi(vec.vector_bytes)
    ELSE decode_float32s(vec.vector_bytes)

RECURSIVE ReferenceMappingAsRequested(_, _, _)
ReferenceMappingAsRequested(references, p, included) ==
    IF ~included \/ (Len(p.ref_props) = 0 /\ ~p.ref_props_requested)
    THEN ~IsEmptyDict(references) /\ Absent(references)
    ELSE IF Len(p.ref_props) = 0
    THEN IsEmptyDict(references)
    ELSE /\ Len(references) = Len(p.ref_props)
         /\ \A k \in 1..Len(p.ref_props) :
                /\ references[k].key = p.ref_props[k].prop_name
                /\ Len(references[k].value.objects) = Len(p.ref_props[k].properties)
                /\ \A j \in 1..Len(p.ref_props[k].properties) :
                       /\ references[k].value.objects[j].uuid.int
                              = int_from_bytes_big(
                                    p.ref_props[k].properties[j].metadata.id_as_bytes)
                       /\ ReferenceMappingAsRequested(
                              references[k].value.objects[j].references,
                              p.ref_props[k].properties[j], TRUE)

-----------------------------------------------------------------------------
(* Claims about group records and the cluster status: C20, C19 *)

\* C20: for every bucket the groups collection retains, the group's rerank
\* score is absent when the bucket carries no rerank section and is the
\* wire score when it does, and a generative group's generated text is
\* absent when the bucket carries no generative section: a missing section
\* is never a present 0.0 score or a present empty text.
MissingSectionIsAbsent ==
    GroupByCall =>
        \A k \in 1..Len(ret.val.groups) :
            /\ ret.val.groups[k].value.rerank_score
                   = IF "rerank" \in Retained(arg.res.group_by_results)[k].populated
                     THEN PyFloat(Retained(arg.res.group_by_results)[k].rerank.score)
                     ELSE None
            /\ /\ ret.val.groups[k].value.type = "GenerativeGroup"
               /\ "generative" \notin Retained(arg.res.group_by_results)[k].populated
               => Absent(ret.val.groups[k].value.generated)

\* The "nodes" entry of the decoded response of a nodes call (None when the
\* response has none).
NodesEntry ==
    IF "nodes" \in DictKeys(arg.response)
    THEN DictValue(arg.response, "nodes") ELSE None

\* C19: _Cluster.nodes raises EmptyResponseError whenever the decoded
\* response has no "nodes" entry or an empty node list, and otherwise
\* returns the converted node list, with the shards (verbose conversion) if
\* and only if output is "verbose"; the path requested is "/nodes", then "/"
\* and the capitalized collection name iff a collection is given, then
\* "?output=" and the output iff an output is given.
NodesPathAndEmptyResponse ==
    op = "nodes" =>
        /\ Len(arg.path) = 1 + (IF arg.collection = None THEN 0
                                ELSE 1 + Len(arg.collection.val))
                             + (IF arg.output = None THEN 0 ELSE 2)
        /\ arg.path[1] = "/nodes"
        /\ arg.collection # None =>
               /\ arg.path[2] = "/"
               /\ SubSeq(arg.path, 3, 2 + Len(arg.collection.val))
                      = capitalize_first_letter(arg.collection.val)
        /\ arg.output # None =>
               /\ arg.path[Len(arg.path) - 1] = "?output="
               /\ arg.path[Len(arg.path)] = arg.output.val
        /\ IF NodesEntry = None \/ NodesEntry = ListOf(<<>>)
           THEN ~ret.ok /\ ret.exc = "EmptyResponseError"
           ELSE /\ ret.ok
                /\ Len(ret.val.val) = Len(NodesEntry.val)
                /\ \A i \in 1..Len(NodesEntry.val) :
                       /\ ret.val.val[i].name = NodesEntry.val[i].name
                       /\ ret.val.val[i].status = NodesEntry.val[i].status
                       /\ ret.val.val[i].shards
                              = IF arg.output = PyStrValue("verbose")
                                THEN NodesEntry.val[i].shards
                                ELSE None

\* C19 witness: collection "ab" with verbose output and two nodes in the
\* response: the path is /nodes/Ab?output=verbose and the two nodes come
\* back with their shards; EmptyNodeListRaises is the empty-list case.
VerboseNodesOfCapitalizedCollection ==
    /\ Returned("nodes")
    /\ arg.collection = PyStrValue(<<"a", "b">>)
    /\ arg.output = PyStrValue("verbose")
    /\ arg.path = <<"/nodes", "/", "A", "b", "?output=", "verbose">>
    /\ Len(ret.val.val) = 2
    /\ ret.val.val[1].name = "node2"
    /\ ret.val.val[2].shards = ListOf(<<"shard1">>)

EmptyNodeListRaises ==
    /\ op = "nodes"
    /\ NodesEntry = ListOf(<<>>)
    /\ arg.collection = None /\ arg.output = None
    /\ arg.path = <<"/nodes">>
    /\ ~ret.ok /\ ret.exc = "EmptyResponseError"

-----------------------------------------------------------------------------
(* Claim about the generated text and the generative annotation: C21 *)

\* C21: the generative annotation of every generative object is built from
\* the structured payload on every server (absent exactly when the payload
\* is empty, its text the result of the first entry); so on a 1.27+ server
\* the generated text is absent if and only if the annotation is absent,
\* and when both are present the generated text equals the annotation's
\* text.  On an older server the two can differ in presence and in value
\* (GeneratedDiffersFromAnnotationBefore127 is such a state).
GeneratedAgreesWithAnnotationOn127 ==
    Returned("_result_to_generative_query_return") =>
        \A i \in 1..Len(arg.res.results) :
            /\ Absent(ret.val.objects[i].generative)
                   <=> Len(arg.res.results[i].generative.values) = 0
            /\ ~Absent(ret.val.objects[i].generative) =>
                   ret.val.objects[i].generative.text
                       = FirstGenerativeText(arg.res.results[i].generative)
            /\ uses_127_api =>
                   /\ Absent(ret.val.objects[i].generated)
                          <=> Absent(ret.val.objects[i].generative)
                   /\ ~Absent(ret.val.objects[i].generated) =>
                          ret.val.objects[i].generated
                              = ret.val.objects[i].generative.text

\* C21 witness: an older server and a reply of two results.  The first has
\* a payload and no side channel: its generated text is absent, its
\* annotation present.  The second has the side channel and a payload whose
\* first entry is empty: both are present, with different texts.
GeneratedDiffersFromAnnotationBefore127 ==
    /\ Returned("_result_to_generative_query_return")
    /\ ~uses_127_api
    /\ Len(arg.res.results) = 2
    /\ arg.res.results[1].generative = OneGenerative
    /\ ~arg.res.results[1].metadata.generative_present
    /\ Absent(ret.val.objects[1].generated)
    /\ ~Absent(ret.val.objects[1].generative)
    /\ ret.val.objects[1].generative.text = PyStrValue("generated text")
    /\ arg.res.results[2].generative = TwoGenerative
    /\ ret.val.objects[2].generated = PyStrValue("side channel")
    /\ ~Absent(ret.val.objects[2].generative)
    /\ ret.val.objects[2].generative.text = PyStrValue("")

\* The same reply decoded for a 1.27 server: text and annotation agree.
GeneratedEqualsAnnotationOn127 ==
    /\ Returned("_result_to_generative_query_return")
    /\ uses_127_api
    /\ Len(arg.res.results) = 2
    /\ arg.res.results[1].generative = OneGenerative
    /\ arg.res.results[2].generative = TwoGenerative
    /\ arg.res.results[2].metadata.generative_present
    /\ ret.val.objects[1].generated = PyStrValue("generated text")
    /\ ret.val.objects[1].generative.text = PyStrValue("generated text")
    /\ ret.val.objects[2].generated = PyStrValue("")
    /\ ret.val.objects[2].generative.text = PyStrValue("")

=============================================================================
